---- MODULE Spec2Model ----
(***************************************************************************)
(* Model of the transcode supervisor and of the batch export of            *)
(* VideoCutterApp:                                                         *)
(*   app/ffmpeg_worker.py  FFmpegWorker (execute, _read_output, stop,      *)
(*                         parse_progress, _build_speed_filters,           *)
(*                         _build_color_filters)                           *)
(*   app/ui_main.py        ProcessingThread, MainWindow.process_video,     *)
(*                         stop_processing, on_processing_finished         *)
(*   app/models.py         Job.validate, Segment.validate                  *)
(*   app/segment_worker.py SegmentWorker (stop, export_segments_fast,      *)
(*                         export_segments_accurate, export_concat)        *)
(* Times and callback values are kept in hundredths of a second / of a     *)
(* unit, so 100.0 is 10000 and -1.0 is -100.                               *)
(***************************************************************************)
EXTENDS Integers, Sequences, FiniteSets, TLC

VARIABLES
    is_running,         \* FFmpegWorker.is_running
    process,            \* FFmpegWorker.process: 0 is None, else a subprocess id
    progress_callback,  \* FFmpegWorker.progress_callback is set
    proc,               \* the subprocesses launched by Popen
    nproc,              \* how many subprocesses were launched
    reader,             \* the _read_output threads, one per thread.start()
    ex,                 \* the activation of execute()
    st,                 \* the activation of stop()
    delivered,          \* the calls of progress_callback about each subprocess, in order
    budget,             \* what the environment may still do (calls, lines)
    job,                \* the Job of the ProcessingThread
    pt,                 \* ProcessingThread.run
    mw,                 \* MainWindow: stop_processing, finished reports
    segments,           \* the segments handed to a SegmentWorker export
    sw,                 \* the SegmentWorker and its export_segments_* call
    fut,                \* the futures of the ThreadPoolExecutor, one per segment
    cc,                 \* the export_concat call of the SegmentWorker
    bc,                 \* the filters and the command built for one set of arguments
    project,            \* a Project, the file it is saved to, the Project loaded back
    tc,                 \* a time, its timecode and the seconds parsed back
    probe,              \* one probing of a source by ffprobe_utils
    tmp,                \* the temporary directories of concurrent concat exports
    preview,            \* the preview regeneration of the VLCPlayer
    tempo               \* the atempo loop of _build_speed_filters, step by step

supervisorVars == <<is_running, process, progress_callback, proc, nproc, reader,
                    ex, st, delivered, budget, job, pt, mw>>

batchVars == <<segments, sw, fut, cc>>

utilityVars == <<project, tc, probe, tmp, preview, tempo>>

vars == <<supervisorVars, batchVars, bc, utilityVars>>

workerVars == <<is_running, process, progress_callback>>
appVars == <<job, pt, mw>>

(***************************************************************************)
(* Bounds of the model.                                                    *)
(***************************************************************************)
MaxCalls == 3
MaxStops == 1
MaxLines == 2
MaxFaults == 1
DiagLines == 6

Procs == 1..MaxCalls

(***************************************************************************)
(* Program constants.                                                      *)
(***************************************************************************)
DoneValue == 10000
ErrorValue == 0 - 100
ErrorTail == 5
RcNone == 1000
RcTerm == 0 - 15
RcKill == 0 - 9

(***************************************************************************)
(* Output lines of the engine.  A line is described by what the scans of   *)
(* _read_output and parse_progress look at: the digits of a                *)
(* time=HH:MM:SS.ff token when it has one, and whether it contains one of  *)
(* the words error / failed / invalid.                                     *)
(***************************************************************************)
NoTime == <<>>

TimeLine(h, m, s, c, d) == [time |-> <<h, m, s, c>>, diag |-> d]

PlainLine(d) == [time |-> NoTime, diag |-> d]

Lines == { TimeLine(0, 0, 5, 0, FALSE), TimeLine(0, 1, 40, 0, FALSE),
           PlainLine(TRUE), PlainLine(FALSE) }

DiagOnlyLines == { PlainLine(TRUE), PlainLine(FALSE) }

\* parse_progress with a default time of 0 for a line without the token
parse_progress_default(line) ==
    IF line.time = NoTime
    THEN <<0>>
    ELSE <<line.time[1] * 360000 + line.time[2] * 6000
           + line.time[3] * 100 + line.time[4]>>

\* parse_progress: None (NoTime) without the token, else the seconds
parse_progress(line) ==
    IF line.time = NoTime
    THEN NoTime
    ELSE <<line.time[1] * 360000 + line.time[2] * 6000
           + line.time[3] * 100 + line.time[4]>>

\* the keyword test of _read_output
is_diagnostic(line) == line.diag

(***************************************************************************)
(* Inputs of a job.                                                        *)
(***************************************************************************)
Inputs == { [exists |-> TRUE,  start |-> 0, end |-> 10],
            [exists |-> FALSE, start |-> 0, end |-> 10],
            [exists |-> TRUE,  start |-> 5, end |-> 5] }

NoInput == [exists |-> FALSE, start |-> 0, end |-> 0]

\* Job.validate / Segment.validate, the checks on the source and the range
validate(inp) == inp.exists /\ inp.start >= 0 /\ inp.end > inp.start

\* ProcessingThread._on_progress: the percentage emitted for a callback value
\* (time in hundredths of a second), as the fraction <<numerator, denominator>>;
\* nothing is emitted when end_time <= start_time
on_progress(time, inp) ==
    IF inp.end > inp.start
    THEN << (time - inp.start * 100) * 100, (inp.end - inp.start) * 100 >>
    ELSE << >>

(***************************************************************************)
(* State after construction: FFmpegWorker.__init__, no job yet.            *)
(***************************************************************************)
\* a subprocess: out is what it has written so far, pipe the part of it
\* that no readline() has taken yet, term whether terminate() was called
NoProc == [state |-> "none", rc |-> RcNone, out |-> <<>>, pipe |-> <<>>,
           term |-> FALSE]

NoLine == [idx |-> 0, line |-> PlainLine(FALSE)]

NoReader == [pc |-> "none", stream |-> 0, target |-> 0, cur |-> NoLine,
             error_lines |-> <<>>, return_code |-> RcNone]

IdleExecute == [pc |-> "idle", inp |-> NoInput, ret |-> "none", launched |-> 0]

IdleStop == [pc |-> "idle", target |-> 0]

NoJob == [status |-> "none", inp |-> NoInput]

InitWorker ==
    /\ is_running = FALSE
    /\ process = 0
    /\ progress_callback = FALSE
    /\ proc = [p \in Procs |-> NoProc]
    /\ nproc = 0
    /\ reader = [p \in Procs |-> NoReader]
    /\ ex = IdleExecute
    /\ st = IdleStop
    /\ delivered = [p \in Procs |-> <<>>]
    /\ job = NoJob
    /\ pt = [pc |-> "none"]
    /\ mw = [pc |-> "idle", queue |-> <<>>, reports |-> <<>>, stopped |-> FALSE]

\* no filters are being built
NoBuild == [pc |-> "none"]

NoUtility ==
    /\ project = [pc |-> "none"]
    /\ tc = [pc |-> "none"]
    /\ probe = [pc |-> "none"]
    /\ tmp = [pc |-> "none"]
    /\ preview = [pc |-> "none"]
    /\ tempo = [pc |-> "none"]

\* no export of segments is in progress
NoBatch ==
    /\ segments = << >>
    /\ sw = [pc |-> "none"]
    /\ fut = << >>
    /\ cc = [pc |-> "none"]

\* the application: MainWindow, and the engine writing up to MaxLines lines
Init ==
    /\ InitWorker
    /\ bc = NoBuild
    /\ NoBatch
    /\ NoUtility
    /\ budget = [calls |-> 0, stops |-> 0, lines |-> MaxLines,
                 faults |-> MaxFaults, kinds |-> "all", mode |-> "app"]

\* a client of the class that calls execute() and stop() on one instance
InitReuse ==
    /\ InitWorker
    /\ bc = NoBuild
    /\ NoBatch
    /\ NoUtility
    /\ budget = [calls |-> MaxCalls, stops |-> MaxStops, lines |-> 0,
                 faults |-> 0, kinds |-> "all", mode |-> "client"]

\* the application with an engine that writes up to DiagLines lines without
\* a time token
InitDiag ==
    /\ InitWorker
    /\ bc = NoBuild
    /\ NoBatch
    /\ NoUtility
    /\ budget = [calls |-> 0, stops |-> 0, lines |-> DiagLines,
                 faults |-> MaxFaults, kinds |-> "plain", mode |-> "app"]

(***************************************************************************)
(* FFmpegWorker.execute, one step per statement that reads or writes the   *)
(* fields of the instance.  execute() does not look at the input file or   *)
(* at the time range: build_command only formats them.                     *)
(***************************************************************************)
ExecuteReturn(value) ==
    [ex EXCEPT !.pc = "idle", !.ret = value, !.inp = NoInput]

\* execute() without the test of is_running
ExecGuard_NoCheck ==
    /\ ex.pc = "guard"
    /\ ex' = [ex EXCEPT !.pc = "popen"]
    /\ UNCHANGED <<workerVars, proc, nproc, reader, st, delivered, budget,
                   appVars>>
    /\ UNCHANGED <<batchVars, bc, utilityVars>>

\* if self.is_running: return False
ExecGuard ==
    /\ ex.pc = "guard"
    /\ IF is_running
       THEN ex' = ExecuteReturn("false")
       ELSE ex' = [ex EXCEPT !.pc = "popen"]
    /\ UNCHANGED <<workerVars, proc, nproc, reader, st, delivered, budget,
                   appVars>>
    /\ UNCHANGED <<batchVars, bc, utilityVars>>

\* self.process = subprocess.Popen(...), or the except branch when the
\* engine cannot be spawned
ExecPopen ==
    /\ ex.pc = "popen"
    /\ \E spawned \in BOOLEAN :
         IF spawned
         THEN /\ nproc < MaxCalls
              /\ nproc' = nproc + 1
              /\ proc' = [proc EXCEPT ![nproc + 1] =
                            [NoProc EXCEPT !.state = "alive"]]
              /\ process' = nproc + 1
              /\ ex' = [ex EXCEPT !.pc = "setrun", !.launched = nproc + 1]
              /\ UNCHANGED is_running
         ELSE /\ is_running' = FALSE
              /\ ex' = ExecuteReturn("false")
              /\ UNCHANGED <<process, proc, nproc>>
    /\ UNCHANGED <<progress_callback, reader, st, delivered, budget, appVars>>
    /\ UNCHANGED <<batchVars, bc, utilityVars>>

\* self.is_running = True
ExecSetRunning ==
    /\ ex.pc = "setrun"
    /\ is_running' = TRUE
    /\ ex' = [ex EXCEPT !.pc = "thread"]
    /\ UNCHANGED <<process, progress_callback, proc, nproc, reader, st,
                   delivered, budget, appVars>>
    /\ UNCHANGED <<batchVars, bc, utilityVars>>

\* threading.Thread(target=self._read_output).start(); return True
ExecThreadStart ==
    /\ ex.pc = "thread"
    /\ reader' = [reader EXCEPT ![ex.launched] =
                    [NoReader EXCEPT !.pc = "start"]]
    /\ ex' = ExecuteReturn("true")
    /\ UNCHANGED <<workerVars, proc, nproc, st, delivered, budget, appVars>>
    /\ UNCHANGED <<batchVars, bc, utilityVars>>

(***************************************************************************)
(* FFmpegWorker._read_output, run by the thread that execute() started.    *)
(* self.process is read again at every use, as in the code.                *)
(***************************************************************************)
\* progress_callback(value, text) called by thread k; idx is the number of
\* the line the value was parsed from, 0 for the terminal call, which
\* carries the return code it was derived from
Callback(k, idx, value, rc) == [by |-> k, idx |-> idx, val |-> value, rc |-> rc]

Deliver(p, call) == [delivered EXCEPT ![p] = Append(@, call)]

\* if not self.process: return; iter(self.process.stdout.readline, '')
ReaderStart(k) ==
    /\ reader[k].pc = "start"
    /\ IF process = 0
       THEN reader' = [reader EXCEPT ![k].pc = "done"]
       ELSE reader' = [reader EXCEPT ![k].pc = "loop", ![k].stream = process]
    /\ UNCHANGED <<workerVars, proc, nproc, ex, st, delivered, budget, appVars>>
    /\ UNCHANGED <<batchVars, bc, utilityVars>>

\* one readline(): a line, or '' at end of file once the subprocess exited
ReaderReadLine(k) ==
    /\ reader[k].pc = "loop"
    /\ LET s == reader[k].stream IN
         IF proc[s].pipe # <<>>
         THEN /\ reader' = [reader EXCEPT ![k].pc = "line",
                                          ![k].cur = Head(proc[s].pipe)]
              /\ proc' = [proc EXCEPT ![s].pipe = Tail(proc[s].pipe)]
         ELSE /\ proc[s].state = "exited"
              /\ reader' = [reader EXCEPT ![k].pc = "wait"]
              /\ UNCHANGED proc
    /\ UNCHANGED <<workerVars, nproc, ex, st, delivered, budget, appVars>>
    /\ UNCHANGED <<batchVars, bc, utilityVars>>

\* readline() raises (the except branch): no terminal callback is made
ReaderReadFails(k) ==
    /\ reader[k].pc = "loop"
    /\ budget.faults > 0
    /\ reader' = [reader EXCEPT ![k].pc = "finally"]
    /\ budget' = [budget EXCEPT !.faults = @ - 1]
    /\ UNCHANGED <<workerVars, proc, nproc, ex, st, delivered, appVars>>
    /\ UNCHANGED <<batchVars, bc, utilityVars>>

\* the body of the loop: keep a diagnostic line, report a parsed time
ReaderHandleLine(k) ==
    /\ reader[k].pc = "line"
    /\ LET cur == reader[k].cur
           progress_data == parse_progress(cur.line)
       IN /\ reader' = [reader EXCEPT
                 ![k].pc = "loop",
                 ![k].cur = NoLine,
                 ![k].error_lines =
                     IF is_diagnostic(cur.line)
                     THEN Append(reader[k].error_lines, cur.idx)
                     ELSE reader[k].error_lines]
          /\ delivered' =
                 IF progress_data # NoTime /\ progress_callback
                 THEN Deliver(reader[k].stream,
                              Callback(k, cur.idx, progress_data[1], RcNone))
                 ELSE delivered
    /\ UNCHANGED <<workerVars, proc, nproc, ex, st, budget, appVars>>
    /\ UNCHANGED <<batchVars, bc, utilityVars>>

\* self.process.wait(): the subprocess self.process names now
ReaderWaitCall(k) ==
    /\ reader[k].pc = "wait"
    /\ reader' = [reader EXCEPT ![k].pc = "waiting", ![k].target = process]
    /\ UNCHANGED <<workerVars, proc, nproc, ex, st, delivered, budget, appVars>>
    /\ UNCHANGED <<batchVars, bc, utilityVars>>

\* wait() returns once that subprocess exited; then
\* return_code = self.process.returncode (None while it is running)
ReaderReturnCode(k) ==
    /\ reader[k].pc = "waiting"
    /\ proc[reader[k].target].state = "exited"
    /\ reader' = [reader EXCEPT ![k].pc = "report", ![k].target = process,
                                ![k].return_code = proc[process].rc]
    /\ UNCHANGED <<workerVars, proc, nproc, ex, st, delivered, budget, appVars>>
    /\ UNCHANGED <<batchVars, bc, utilityVars>>

\* the terminal value with every non-negative return code taken for success
terminal_value_sign(return_code) ==
    IF return_code >= 0 THEN DoneValue ELSE ErrorValue

\* the value of the terminal callback for a return code
terminal_value(return_code) ==
    IF return_code = 0 THEN DoneValue ELSE ErrorValue

\* error_lines[-5:], what the failure branch logs
error_tail(lines) ==
    IF Len(lines) <= ErrorTail THEN lines
    ELSE SubSeq(lines, Len(lines) - ErrorTail + 1, Len(lines))

\* if return_code == 0: callback(100.0) else: callback(-1.0)
ReaderReport(k) ==
    /\ reader[k].pc = "report"
    /\ reader' = [reader EXCEPT ![k].pc = "finally"]
    /\ delivered' =
           IF progress_callback
           THEN Deliver(reader[k].target,
                        Callback(k, 0, terminal_value(reader[k].return_code),
                                 reader[k].return_code))
           ELSE delivered
    /\ UNCHANGED <<workerVars, proc, nproc, ex, st, budget, appVars>>
    /\ UNCHANGED <<batchVars, bc, utilityVars>>

\* finally: self.is_running = False
ReaderFinally(k) ==
    /\ reader[k].pc = "finally"
    /\ is_running' = FALSE
    /\ reader' = [reader EXCEPT ![k].pc = "done"]
    /\ UNCHANGED <<process, progress_callback, proc, nproc, ex, st, delivered,
                   budget, appVars>>
    /\ UNCHANGED <<batchVars, bc, utilityVars>>

Reader(k) ==
    \/ ReaderStart(k)
    \/ ReaderReadLine(k)
    \/ ReaderReadFails(k)
    \/ ReaderHandleLine(k)
    \/ ReaderWaitCall(k)
    \/ ReaderReturnCode(k)
    \/ ReaderReport(k)
    \/ ReaderFinally(k)

(***************************************************************************)
(* FFmpegWorker.stop.                                                      *)
(***************************************************************************)
\* if self.process and self.is_running:
StopGuard ==
    /\ st.pc = "guard"
    /\ IF process # 0 /\ is_running
       THEN st' = [st EXCEPT !.pc = "terminate", !.target = process]
       ELSE st' = [st EXCEPT !.pc = "idle", !.target = 0]
    /\ UNCHANGED <<workerVars, proc, nproc, reader, ex, delivered, budget,
                   appVars>>
    /\ UNCHANGED <<batchVars, bc, utilityVars>>

\* self.process.terminate()
StopTerminate ==
    /\ st.pc = "terminate"
    /\ proc' = [proc EXCEPT ![process].term = TRUE]
    /\ st' = [st EXCEPT !.pc = "wait"]
    /\ UNCHANGED <<workerVars, nproc, reader, ex, delivered, budget, appVars>>
    /\ UNCHANGED <<batchVars, bc, utilityVars>>

\* self.process.wait(timeout=5): returns, or TimeoutExpired while alive
StopWait ==
    /\ st.pc = "wait"
    /\ IF proc[process].state = "exited"
       THEN st' = [st EXCEPT !.pc = "clear"]
       ELSE st' = [st EXCEPT !.pc = "kill"]
    /\ UNCHANGED <<workerVars, proc, nproc, reader, ex, delivered, budget,
                   appVars>>
    /\ UNCHANGED <<batchVars, bc, utilityVars>>

\* stop() that returns from the except branch without clearing is_running
StopKill_NoClear ==
    /\ st.pc = "kill"
    /\ proc' = [proc EXCEPT ![process] =
                  IF @.state = "alive"
                  THEN [@ EXCEPT !.state = "exited", !.rc = RcKill]
                  ELSE @]
    /\ st' = [st EXCEPT !.pc = "idle"]
    /\ UNCHANGED <<workerVars, nproc, reader, ex, delivered, budget, appVars>>
    /\ UNCHANGED <<batchVars, bc, utilityVars>>

\* self.process.kill(): the subprocess is gone once kill() is through
StopKill ==
    /\ st.pc = "kill"
    /\ proc' = [proc EXCEPT ![process] =
                  IF @.state = "alive"
                  THEN [@ EXCEPT !.state = "exited", !.rc = RcKill]
                  ELSE @]
    /\ st' = [st EXCEPT !.pc = "clear"]
    /\ UNCHANGED <<workerVars, nproc, reader, ex, delivered, budget, appVars>>
    /\ UNCHANGED <<batchVars, bc, utilityVars>>

\* self.is_running = False
StopClear ==
    /\ st.pc = "clear"
    /\ is_running' = FALSE
    /\ st' = [st EXCEPT !.pc = "idle"]
    /\ UNCHANGED <<process, progress_callback, proc, nproc, reader, ex,
                   delivered, budget, appVars>>
    /\ UNCHANGED <<batchVars, bc, utilityVars>>

Stop == StopGuard \/ StopTerminate \/ StopWait \/ StopKill \/ StopClear

Execute == ExecGuard \/ ExecPopen \/ ExecSetRunning \/ ExecThreadStart

(***************************************************************************)
(* The engine subprocess: it writes lines to its output and exits.         *)
(***************************************************************************)
ProcEmit(p) ==
    /\ proc[p].state = "alive"
    /\ budget.lines > 0
    /\ \E line \in (IF budget.kinds = "plain" THEN DiagOnlyLines ELSE Lines) :
         proc' = [proc EXCEPT
                    ![p].out = Append(@, line),
                    ![p].pipe = Append(@, [idx |-> Len(proc[p].out) + 1,
                                           line |-> line])]
    /\ budget' = [budget EXCEPT !.lines = @ - 1]
    /\ UNCHANGED <<workerVars, nproc, reader, ex, st, delivered, appVars>>
    /\ UNCHANGED <<batchVars, bc, utilityVars>>

\* the engine exits with 0 or with an error code of its own; a terminated
\* subprocess exits with the code of the signal
ExitCodes(p) == IF proc[p].term THEN {RcTerm} ELSE {0, 1}

ProcExit(p) ==
    /\ proc[p].state = "alive"
    /\ \E rc \in ExitCodes(p) :
         proc' = [proc EXCEPT ![p].state = "exited", ![p].rc = rc]
    /\ UNCHANGED <<workerVars, nproc, reader, ex, st, delivered, budget,
                   appVars>>
    /\ UNCHANGED <<batchVars, bc, utilityVars>>

Engine(p) == ProcEmit(p) \/ ProcExit(p)

(***************************************************************************)
(* A client of the class: set_progress_callback, execute, stop, called one *)
(* after the other from one thread.                                        *)
(***************************************************************************)
ClientIdle == budget.mode = "client" /\ ex.pc = "idle" /\ st.pc = "idle"

\* set_progress_callback
set_progress_callback ==
    /\ ClientIdle
    /\ budget.calls = MaxCalls
    /\ ~progress_callback
    /\ progress_callback' = TRUE
    /\ UNCHANGED <<is_running, process, proc, nproc, reader, ex, st, delivered,
                   budget, appVars>>
    /\ UNCHANGED <<batchVars, bc, utilityVars>>

ClientExecute ==
    /\ ClientIdle
    /\ budget.calls > 0
    /\ \E inp \in Inputs :
         ex' = [pc |-> "guard", inp |-> inp, ret |-> "none", launched |-> 0]
    /\ budget' = [budget EXCEPT !.calls = @ - 1]
    /\ UNCHANGED <<workerVars, proc, nproc, reader, st, delivered, appVars>>
    /\ UNCHANGED <<batchVars, bc, utilityVars>>

ClientStop ==
    /\ ClientIdle
    /\ budget.stops > 0
    /\ st' = [st EXCEPT !.pc = "guard"]
    /\ budget' = [budget EXCEPT !.stops = @ - 1]
    /\ UNCHANGED <<workerVars, proc, nproc, reader, ex, delivered, appVars>>
    /\ UNCHANGED <<batchVars, bc, utilityVars>>

Client == set_progress_callback \/ ClientExecute \/ ClientStop

(***************************************************************************)
(* The application: MainWindow.process_video builds a Job, validates it    *)
(* and starts a ProcessingThread with an FFmpegWorker of its own;          *)
(* stop_processing stops the worker and terminates the thread.  The model  *)
(* follows one job.                                                        *)
(***************************************************************************)
AppMode == budget.mode = "app"

isRunning == pt.pc \notin {"none", "done", "terminated"}

\* process_video: job.validate(), ProcessingThread(job), thread.start()
process_video ==
    /\ AppMode
    /\ mw.pc = "idle"
    /\ job.status = "none"
    /\ \E inp \in Inputs :
         IF validate(inp)
         THEN /\ job' = [status |-> "pending", inp |-> inp]
              /\ progress_callback' = TRUE
              /\ pt' = [pc |-> "run"]
         ELSE UNCHANGED <<job, progress_callback, pt>>
    /\ UNCHANGED <<is_running, process, proc, nproc, reader, ex, st, delivered,
                   budget, mw>>
    /\ UNCHANGED <<batchVars, bc, utilityVars>>

\* ProcessingThread.run: self.job.status = "running", then worker.execute(...)
RunStart ==
    /\ pt.pc = "run"
    /\ job' = [job EXCEPT !.status = "running"]
    /\ ex' = [pc |-> "guard", inp |-> job.inp, ret |-> "none", launched |-> 0]
    /\ pt' = [pc |-> "execute"]
    /\ UNCHANGED <<workerVars, proc, nproc, reader, st, delivered, budget, mw>>
    /\ UNCHANGED <<batchVars, bc, utilityVars>>

\* if success: ... else: status = "failed"
RunExecuteReturned ==
    /\ pt.pc = "execute"
    /\ ex.pc = "idle"
    /\ IF ex.ret = "true"
       THEN /\ pt' = [pc |-> "wait"]
            /\ UNCHANGED job
       ELSE /\ pt' = [pc |-> "emit"]
            /\ job' = [job EXCEPT !.status = "failed"]
    /\ UNCHANGED <<workerVars, proc, nproc, reader, ex, st, delivered, budget,
                   mw>>
    /\ UNCHANGED <<batchVars, bc, utilityVars>>

\* self.worker.process.wait(); the status from the return code
RunWait ==
    /\ pt.pc = "wait"
    /\ proc[process].state = "exited"
    /\ job' = [job EXCEPT !.status =
                 IF proc[process].rc = 0 THEN "completed" ELSE "failed"]
    /\ pt' = [pc |-> "emit"]
    /\ UNCHANGED <<workerVars, proc, nproc, reader, ex, st, delivered, budget,
                   mw>>
    /\ UNCHANGED <<batchVars, bc, utilityVars>>

\* self.finished.emit(...): queued for the main thread
RunEmit ==
    /\ pt.pc = "emit"
    /\ mw' = [mw EXCEPT !.queue = Append(@, job.status = "completed")]
    /\ pt' = [pc |-> "done"]
    /\ UNCHANGED <<workerVars, proc, nproc, reader, ex, st, delivered, budget,
                   job>>
    /\ UNCHANGED <<batchVars, bc, utilityVars>>

ProcessingThread == RunStart \/ RunExecuteReturned \/ RunWait \/ RunEmit

\* stop_processing: if thread.isRunning(): self.processing_thread.worker.stop()
stop_processing ==
    /\ AppMode
    /\ mw.pc = "idle"
    /\ isRunning
    /\ st' = [st EXCEPT !.pc = "guard"]
    /\ mw' = [mw EXCEPT !.pc = "stop"]
    /\ UNCHANGED <<workerVars, proc, nproc, reader, ex, delivered, budget, job,
                   pt>>
    /\ UNCHANGED <<batchVars, bc, utilityVars>>

\* worker.stop() has returned
StopReturned ==
    /\ mw.pc = "stop"
    /\ st.pc = "idle"
    /\ mw' = [mw EXCEPT !.pc = "terminate", !.stopped = (st.target # 0)]
    /\ UNCHANGED <<workerVars, proc, nproc, reader, ex, st, delivered, budget,
                   job, pt>>
    /\ UNCHANGED <<batchVars, bc, utilityVars>>

\* self.processing_thread.terminate(); self.processing_thread.wait()
TerminateThread ==
    /\ mw.pc = "terminate"
    /\ pt' = IF isRunning THEN [pc |-> "terminated"] ELSE pt
    /\ ex' = IF ex.pc # "idle" THEN [ex EXCEPT !.pc = "idle", !.inp = NoInput]
             ELSE ex
    /\ mw' = [mw EXCEPT !.pc = "cancel"]
    /\ UNCHANGED <<workerVars, proc, nproc, reader, st, delivered, budget, job>>
    /\ UNCHANGED <<batchVars, bc, utilityVars>>

\* self.current_job.status = "cancelled"; self.on_processing_finished(False, ..)
Cancelled ==
    /\ mw.pc = "cancel"
    /\ job' = [job EXCEPT !.status = "cancelled"]
    /\ mw' = [mw EXCEPT !.pc = "idle", !.reports = Append(@, FALSE)]
    /\ UNCHANGED <<workerVars, proc, nproc, reader, ex, st, delivered, budget,
                   pt>>
    /\ UNCHANGED <<batchVars, bc, utilityVars>>

\* on_processing_finished, called for a queued finished signal
on_processing_finished ==
    /\ mw.pc = "idle"
    /\ mw.queue # <<>>
    /\ mw' = [mw EXCEPT !.queue = Tail(@), !.reports = Append(@, Head(mw.queue))]
    /\ UNCHANGED <<workerVars, proc, nproc, reader, ex, st, delivered, budget,
                   job, pt>>
    /\ UNCHANGED <<batchVars, bc, utilityVars>>

MainWindow ==
    \/ process_video
    \/ stop_processing
    \/ StopReturned
    \/ TerminateThread
    \/ Cancelled
    \/ on_processing_finished

(***************************************************************************)
(* Specifications.                                                         *)
(***************************************************************************)
Next ==
    \/ MainWindow
    \/ ProcessingThread
    \/ Execute
    \/ Stop
    \/ \E k \in Procs : Reader(k)
    \/ \E p \in Procs : Engine(p)

Spec == Init /\ [][Next]_vars

SpecDiag == InitDiag /\ [][Next]_vars

\* _read_output when the engine writes nothing and no read fails
ReaderSilent(k) ==
    \/ ReaderStart(k)
    \/ ReaderReadLine(k)
    \/ ReaderWaitCall(k)
    \/ ReaderReturnCode(k)
    \/ ReaderReport(k)
    \/ ReaderFinally(k)

NextReuse ==
    \/ Client
    \/ Execute
    \/ Stop
    \/ \E k \in Procs : ReaderSilent(k)
    \/ \E p \in Procs : ProcExit(p)

SpecReuse == InitReuse /\ [][NextReuse]_vars

(***************************************************************************)
(* SegmentWorker: export_segments_fast and export_segments_accurate.  The  *)
(* two differ in the command of a segment and in the probe of the source   *)
(* (get_video_info) that the accurate mode makes before it fills the pool. *)
(* A segment carries what its ffmpeg run will do: fate "ok" (exit code 0,  *)
(* file written), "fail" (nonzero exit code), "nofile" (exit code 0, no    *)
(* output file) or "raise" (build_command or Popen raises); the fate of a   *)
(* disabled segment is never looked at.  ffprobe tells whether find_ffprobe *)
(* finds the probe, which only the accurate mode asks for.                 *)
(***************************************************************************)
MaxSegments == 3
MaxWorkers == 2

Fates == {"ok", "fail", "nofile", "raise"}

SegmentIds == 1..MaxSegments

NoFuture == [state |-> "none", result |-> FALSE, yielded |-> FALSE,
             launched |-> FALSE]

enabled_segments_all == SegmentIds

\* enabled_segments = [s for s in segments if s.enabled]
enabled_segments == {i \in SegmentIds : segments[i].enabled}

\* futures whose ffmpeg subprocess is running
Launched == {i \in SegmentIds : fut[i].state = "communicate"}

\* futures taken by a thread of the pool and not finished
InPool == {i \in SegmentIds : fut[i].state \in {"started", "communicate"}}

\* SegmentWorker.__init__, and the arguments of one export call
InitSplit ==
    /\ InitWorker
    /\ bc = NoBuild
    /\ NoUtility
    /\ budget = [calls |-> 0, stops |-> 0, lines |-> 0, faults |-> 0,
                 kinds |-> "all", mode |-> "batch"]
    /\ segments \in [SegmentIds -> [enabled : BOOLEAN, fate : Fates]]
    /\ \A i \in SegmentIds : ~segments[i].enabled => segments[i].fate = "ok"
    /\ fut = [i \in SegmentIds |-> NoFuture]
    /\ cc = [pc |-> "none"]
    /\ \E workers \in 1..MaxWorkers, accurate, exists, ffprobe \in BOOLEAN :
         /\ ~accurate => ffprobe
         /\ ~exists => ffprobe
         /\ sw = [pc |-> "idle", max_workers |-> workers,
                  accurate |-> accurate, input_exists |-> exists,
                  ffprobe |-> ffprobe, processing |-> FALSE,
                  cancelled |-> FALSE, total |-> 0, completed |-> 0,
                  output_files |-> << >>, reports |-> << >>,
                  unstarted |-> {}, inflight |-> {}, stopped |-> FALSE]

\* SegmentWorker.stop: self.cancelled = True.  unstarted and inflight record
\* where the futures were when the flag was set during the export.
SegmentStop ==
    /\ sw.pc \in {"idle", "probe", "submit", "collect", "shutdown"}
    /\ ~sw.cancelled
    /\ sw' = [sw EXCEPT
                !.cancelled = TRUE,
                !.stopped = (sw.pc # "idle"),
                !.unstarted = IF sw.pc = "idle" THEN {}
                              ELSE {i \in enabled_segments :
                                      fut[i].state \in {"none", "pending"}},
                !.inflight = IF sw.pc = "idle" THEN {} ELSE Launched]
    /\ UNCHANGED <<segments, fut>>
    /\ UNCHANGED <<supervisorVars, cc, bc, utilityVars>>

\* if not input_file.exists(): return []; processing = True; cancelled = False;
\* total = len(enabled_segments); completed = 0; output_files = []
ExportStart ==
    /\ sw.pc = "idle"
    /\ IF ~sw.input_exists
       THEN sw' = [sw EXCEPT !.pc = "returned"]
       ELSE sw' = [sw EXCEPT
                     !.pc = IF sw.accurate THEN "probe" ELSE "submit",
                     !.processing = TRUE,
                     !.cancelled = FALSE,
                     !.total = Cardinality(enabled_segments)]
    /\ UNCHANGED <<segments, fut>>
    /\ UNCHANGED <<supervisorVars, cc, bc, utilityVars>>

\* export_segments_accurate: video_info = get_video_info(input_file), outside
\* every try; find_ffprobe raises FileNotFoundError when there is no ffprobe
ExportProbe ==
    /\ sw.pc = "probe"
    /\ sw' = [sw EXCEPT !.pc = IF sw.ffprobe THEN "submit" ELSE "raised"]
    /\ UNCHANGED <<segments, fut>>
    /\ UNCHANGED <<supervisorVars, cc, bc, utilityVars>>

\* with ThreadPoolExecutor(max_workers): executor.submit for each enabled segment
ExportSubmit ==
    /\ sw.pc = "submit"
    /\ fut' = [i \in SegmentIds |->
                 IF i \in enabled_segments
                 THEN [fut[i] EXCEPT !.state = "pending"]
                 ELSE fut[i]]
    /\ sw' = [sw EXCEPT !.pc = "collect"]
    /\ UNCHANGED segments
    /\ UNCHANGED <<supervisorVars, cc, bc, utilityVars>>

FutureStart_NoFlag(i) ==
    /\ fut[i].state = "pending"
    /\ \A j \in SegmentIds : fut[j].state = "pending" => i <= j
    /\ Cardinality(InPool) < sw.max_workers
    /\ fut' = [fut EXCEPT ![i].state = "started"]
    /\ UNCHANGED <<segments, sw>>
    /\ UNCHANGED <<supervisorVars, cc, bc, utilityVars>>

FutureStart_NoLimit(i) ==
    /\ fut[i].state = "pending"
    /\ \A j \in SegmentIds : fut[j].state = "pending" => i <= j
    /\ fut' = [fut EXCEPT ![i].state =
                 IF sw.cancelled THEN "finished" ELSE "started"]
    /\ UNCHANGED <<segments, sw>>
    /\ UNCHANGED <<supervisorVars, cc, bc, utilityVars>>

\* a thread of the pool takes the oldest queued task, when fewer than
\* max_workers threads are busy; process_segment: if self.cancelled: return None
FutureStart(i) ==
    /\ fut[i].state = "pending"
    /\ \A j \in SegmentIds : fut[j].state = "pending" => i <= j
    /\ Cardinality(InPool) < sw.max_workers
    /\ fut' = [fut EXCEPT ![i].state =
                 IF sw.cancelled THEN "finished" ELSE "started"]
    /\ UNCHANGED <<segments, sw>>
    /\ UNCHANGED <<supervisorVars, cc, bc, utilityVars>>

\* process_segment: the command, subprocess.Popen; except Exception: return None
FutureLaunch(i) ==
    /\ fut[i].state = "started"
    /\ fut' = [fut EXCEPT ![i] =
                 IF segments[i].fate = "raise"
                 THEN [@ EXCEPT !.state = "finished", !.result = FALSE]
                 ELSE [@ EXCEPT !.state = "communicate", !.launched = TRUE]]
    /\ UNCHANGED <<segments, sw>>
    /\ UNCHANGED <<supervisorVars, cc, bc, utilityVars>>

\* process.communicate() returns;
\* if process.returncode == 0 and output_file.exists(): return output_file
FutureExit(i) ==
    /\ fut[i].state = "communicate"
    /\ fut' = [fut EXCEPT ![i].state = "finished",
                          ![i].result = (segments[i].fate = "ok")]
    /\ UNCHANGED <<segments, sw>>
    /\ UNCHANGED <<supervisorVars, cc, bc, utilityVars>>

Future(i) == FutureStart(i) \/ FutureLaunch(i) \/ FutureExit(i)

\* for future in as_completed(...): the body for one finished future
ExportCollect_Abort(i) ==
    /\ sw.pc = "collect"
    /\ fut[i].state = "finished"
    /\ ~fut[i].yielded
    /\ IF sw.cancelled \/ ~fut[i].result
       THEN /\ fut' = [j \in SegmentIds |->
                         IF fut[j].state = "pending"
                         THEN [fut[j] EXCEPT !.state = "cancelled"]
                         ELSE IF j = i THEN [fut[j] EXCEPT !.yielded = TRUE]
                         ELSE fut[j]]
            /\ sw' = [sw EXCEPT !.pc = "shutdown"]
       ELSE /\ fut' = [fut EXCEPT ![i].yielded = TRUE]
            /\ sw' = [sw EXCEPT
                        !.output_files = Append(@, i),
                        !.completed = @ + 1,
                        !.reports = Append(@, <<sw.completed + 1, sw.total>>)]
    /\ UNCHANGED segments
    /\ UNCHANGED <<supervisorVars, cc, bc, utilityVars>>

ExportCollect(i) ==
    /\ sw.pc = "collect"
    /\ fut[i].state = "finished"
    /\ ~fut[i].yielded
    /\ IF sw.cancelled
       THEN /\ fut' = [j \in SegmentIds |->
                         IF fut[j].state = "pending"
                         THEN [fut[j] EXCEPT !.state = "cancelled"]
                         ELSE IF j = i THEN [fut[j] EXCEPT !.yielded = TRUE]
                         ELSE fut[j]]
            /\ sw' = [sw EXCEPT !.pc = "shutdown"]
       ELSE /\ fut' = [fut EXCEPT ![i].yielded = TRUE]
            /\ sw' = [sw EXCEPT
                        !.output_files = IF fut[i].result THEN Append(@, i)
                                         ELSE @,
                        !.completed = @ + 1,
                        !.reports = Append(@, <<sw.completed + 1, sw.total>>)]
    /\ UNCHANGED segments
    /\ UNCHANGED <<supervisorVars, cc, bc, utilityVars>>

\* as_completed is exhausted: every future was yielded
ExportCollectDone ==
    /\ sw.pc = "collect"
    /\ \A i \in enabled_segments : fut[i].yielded
    /\ sw' = [sw EXCEPT !.pc = "shutdown"]
    /\ UNCHANGED <<segments, fut>>
    /\ UNCHANGED <<supervisorVars, cc, bc, utilityVars>>

\* the end of the with block waits for the running tasks; processing = False;
\* return output_files
ExportReturn ==
    /\ sw.pc = "shutdown"
    /\ \A i \in SegmentIds : fut[i].state \notin {"pending", "started", "communicate"}
    /\ sw' = [sw EXCEPT !.pc = "returned", !.processing = FALSE]
    /\ UNCHANGED <<segments, fut>>
    /\ UNCHANGED <<supervisorVars, cc, bc, utilityVars>>

export_segments ==
    \/ ExportStart
    \/ ExportProbe
    \/ ExportSubmit
    \/ \E i \in SegmentIds : ExportCollect(i)
    \/ ExportCollectDone
    \/ ExportReturn

NextSplit ==
    \/ export_segments
    \/ SegmentStop
    \/ \E i \in SegmentIds : Future(i)

SpecSplit == InitSplit /\ [][NextSplit]_vars

(***************************************************************************)
(* SegmentWorker.export_concat with _export_concat_fast and                *)
(* _export_concat_accurate: the enabled segments are cut one after the     *)
(* other into a temporary directory, then one ffmpeg run joins them.  The  *)
(* two modes differ in the command of a segment and in the probe of the    *)
(* source that the accurate mode makes after the directory was created.    *)
(***************************************************************************)
\* enabled_segments = [s for s in segments if s.enabled], in order
enabled_list ==
    SelectSeq([i \in SegmentIds |-> i], LAMBDA i : segments[i].enabled)

\* SegmentWorker.__init__, and the arguments of one export_concat call;
\* join is what the ffmpeg run of the concatenation will do, rmtree_ok
\* whether shutil.rmtree succeeds
InitConcat ==
    /\ InitWorker
    /\ bc = NoBuild
    /\ NoUtility
    /\ budget = [calls |-> 0, stops |-> 0, lines |-> 0, faults |-> 0,
                 kinds |-> "all", mode |-> "batch"]
    /\ segments \in [SegmentIds -> [enabled : BOOLEAN, fate : Fates]]
    /\ \A i \in SegmentIds : ~segments[i].enabled => segments[i].fate = "ok"
    /\ fut = [i \in SegmentIds |-> NoFuture]
    /\ \E accurate, exists, ffprobe \in BOOLEAN :
         /\ ~accurate => ffprobe
         /\ ~exists => ffprobe
         /\ sw = [pc |-> "none", max_workers |-> 1,
                  accurate |-> accurate, input_exists |-> exists,
                  ffprobe |-> ffprobe, processing |-> FALSE,
                  cancelled |-> FALSE, total |-> 0, completed |-> 0,
                  output_files |-> << >>, reports |-> << >>,
                  unstarted |-> {}, inflight |-> {}, stopped |-> FALSE]
    /\ \E join \in Fates, rmtree_ok \in BOOLEAN :
         cc = [pc |-> "idle", i |-> 0, temp_dir |-> FALSE,
               temp_files |-> << >>, processed |-> {}, failed |-> 0,
               joined |-> FALSE, outcome |-> "none", ret |-> "none",
               join |-> join, rmtree_ok |-> rmtree_ok, stopped |-> FALSE]

\* SegmentWorker.stop during or before an export_concat call
ConcatStop ==
    /\ cc.pc \notin {"none", "returned", "raised"}
    /\ ~sw.cancelled
    /\ sw' = [sw EXCEPT !.cancelled = TRUE]
    /\ cc' = [cc EXCEPT !.stopped = (cc.pc # "idle")]
    /\ UNCHANGED segments
    /\ UNCHANGED <<supervisorVars, fut, bc, utilityVars>>

\* export_concat: the two early returns, processing = True, cancelled = False
ConcatStart ==
    /\ cc.pc = "idle"
    /\ IF ~sw.input_exists \/ enabled_list = << >>
       THEN /\ cc' = [cc EXCEPT !.pc = "returned", !.ret = "false"]
            /\ UNCHANGED sw
       ELSE /\ cc' = [cc EXCEPT !.pc = "mkdir"]
            /\ sw' = [sw EXCEPT !.processing = TRUE, !.cancelled = FALSE]
    /\ UNCHANGED segments
    /\ UNCHANGED <<supervisorVars, fut, bc, utilityVars>>

\* temp_dir = gettempdir() / f"videocutter_concat_{int(time.time())}";
\* temp_dir.mkdir(parents=True, exist_ok=True); temp_files = []
ConcatMkdir ==
    /\ cc.pc = "mkdir"
    /\ cc' = [cc EXCEPT !.temp_dir = TRUE,
                        !.pc = IF sw.accurate THEN "probe" ELSE "loop"]
    /\ UNCHANGED <<segments, sw>>
    /\ UNCHANGED <<supervisorVars, fut, bc, utilityVars>>

\* _export_concat_accurate: video_info = get_video_info(input_file), before
\* the try; an exception of find_ffprobe leaves through export_concat, whose
\* finally sets processing = False
ConcatProbe ==
    /\ cc.pc = "probe"
    /\ IF sw.ffprobe
       THEN /\ cc' = [cc EXCEPT !.pc = "loop"]
            /\ UNCHANGED sw
       ELSE /\ cc' = [cc EXCEPT !.pc = "raised", !.ret = "raised"]
            /\ sw' = [sw EXCEPT !.processing = FALSE]
    /\ UNCHANGED segments
    /\ UNCHANGED <<supervisorVars, fut, bc, utilityVars>>

\* for i, segment in enumerate(segments): if self.cancelled: return False
ConcatLoop ==
    /\ cc.pc = "loop"
    /\ cc' = IF cc.i = Len(enabled_list)
             THEN [cc EXCEPT !.pc = "join"]
             ELSE IF sw.cancelled
                  THEN [cc EXCEPT !.pc = "finally", !.outcome = "false"]
                  ELSE [cc EXCEPT !.pc = "run"]
    /\ UNCHANGED <<segments, sw>>
    /\ UNCHANGED <<supervisorVars, fut, bc, utilityVars>>

\* subprocess.run of the segment; if returncode == 0 and temp_file.exists():
\* temp_files.append(temp_file) else: return False
ConcatRunSegment_Continue ==
    /\ cc.pc = "run"
    /\ LET seg == enabled_list[cc.i + 1]
       IN  cc' = [cc EXCEPT
                    !.processed = @ \cup {seg},
                    !.failed = IF segments[seg].fate # "ok" /\ @ = 0
                               THEN cc.i + 1 ELSE @,
                    !.temp_files = IF segments[seg].fate = "ok"
                                   THEN Append(@, seg) ELSE @,
                    !.i = @ + 1,
                    !.pc = "loop"]
    /\ UNCHANGED <<segments, sw>>
    /\ UNCHANGED <<supervisorVars, fut, bc, utilityVars>>

ConcatRunSegment ==
    /\ cc.pc = "run"
    /\ LET seg == enabled_list[cc.i + 1]
       IN  cc' = CASE segments[seg].fate = "ok" ->
                        [cc EXCEPT !.processed = @ \cup {seg},
                                   !.temp_files = Append(@, seg),
                                   !.i = @ + 1,
                                   !.pc = "loop"]
                   [] segments[seg].fate = "raise" ->
                        [cc EXCEPT !.processed = @ \cup {seg},
                                   !.failed = cc.i + 1,
                                   !.pc = "finally",
                                   !.outcome = "raised"]
                   [] OTHER ->
                        [cc EXCEPT !.processed = @ \cup {seg},
                                   !.failed = cc.i + 1,
                                   !.pc = "finally",
                                   !.outcome = "false"]
    /\ UNCHANGED <<segments, sw>>
    /\ UNCHANGED <<supervisorVars, fut, bc, utilityVars>>

\* the manifest concat_list.txt, then subprocess.run of the concatenation;
\* if returncode == 0 and output_file.exists(): return True else: return False
ConcatJoin ==
    /\ cc.pc = "join"
    /\ cc' = [cc EXCEPT
                !.joined = (cc.join # "raise"),
                !.pc = "finally",
                !.outcome = CASE cc.join = "ok" -> "true"
                              [] cc.join = "raise" -> "raised"
                              [] OTHER -> "false"]
    /\ UNCHANGED <<segments, sw>>
    /\ UNCHANGED <<supervisorVars, fut, bc, utilityVars>>

\* finally: if temp_dir.exists(): shutil.rmtree(temp_dir), a failure of which
\* is logged; then the finally of export_concat: processing = False
ConcatFinally ==
    /\ cc.pc = "finally"
    /\ cc' = [cc EXCEPT
                !.temp_dir = IF cc.rmtree_ok THEN FALSE ELSE @,
                !.pc = IF cc.outcome = "raised" THEN "raised" ELSE "returned",
                !.ret = cc.outcome]
    /\ sw' = [sw EXCEPT !.processing = FALSE]
    /\ UNCHANGED segments
    /\ UNCHANGED <<supervisorVars, fut, bc, utilityVars>>

export_concat ==
    \/ ConcatStart
    \/ ConcatMkdir
    \/ ConcatProbe
    \/ ConcatLoop
    \/ ConcatRunSegment
    \/ ConcatJoin
    \/ ConcatFinally

NextConcat ==
    \/ export_concat
    \/ ConcatStop

SpecConcat == InitConcat /\ [][NextConcat]_vars

(***************************************************************************)
(* FFmpegWorker._build_speed_filters and _build_color_filters, the pure    *)
(* functions that build_command calls for the speed and the color grade.   *)
(* A speed is the fraction <<numerator, denominator>>, so that the         *)
(* divisions of the atempo chain are exact.  The color parameters are in   *)
(* thousandths, which is what the .3f formatting of the filters keeps; the *)
(* threshold 0.01 is 10.                                                   *)
(***************************************************************************)
Abs(x) == IF x < 0 THEN 0 - x ELSE x

Max(x, y) == IF x > y THEN x ELSE y

Min(x, y) == IF x < y THEN x ELSE y

\* comparisons and division of positive fractions
Less(a, b) == a[1] * b[2] < b[1] * a[2]

Over(a, b) == << a[1] * b[2], a[2] * b[1] >>

Half == << 1, 2 >>

One == << 1, 1 >>

Two == << 2, 1 >>

\* the speeds handed to _build_speed_filters: 0.5, 1.0, 1.0001, 2.0, 3.0,
\* 0.3 and 5.0
Speeds == { << 1, 2 >>, << 1, 1 >>, << 10001, 10000 >>, << 2, 1 >>,
            << 3, 1 >>, << 3, 10 >>, << 5, 1 >> }

\* abs(speed - 1.0) < 0.01
near_one(speed) == Abs(speed[1] - speed[2]) * 100 < speed[2]

\* while remaining > 2.0: atempo=2.0, remaining /= 2.0;
\* if remaining > 1.0: atempo=remaining
RECURSIVE atempo_fast(_)
atempo_fast(remaining) ==
    IF Less(Two, remaining)
    THEN << Two >> \o atempo_fast(Over(remaining, Two))
    ELSE IF Less(One, remaining) THEN << remaining >> ELSE << >>

\* while remaining < 0.5: atempo=0.5, remaining /= 0.5;
\* if remaining < 1.0: atempo=remaining
RECURSIVE atempo_slow(_)
atempo_slow(remaining) ==
    IF Less(remaining, Half)
    THEN << Half >> \o atempo_slow(Over(remaining, Half))
    ELSE IF Less(remaining, One) THEN << remaining >> ELSE << >>

\* _build_speed_filters: (video_filters, audio_filters); a setpts filter is
\* kept by its speed, an atempo filter by its ratio
build_speed_filters(speed) ==
    IF near_one(speed)
    THEN [video |-> << >>, audio |-> << >>]
    ELSE [video |-> << speed >>,
          audio |-> IF ~Less(speed, Half) /\ ~Less(Two, speed)
                    THEN << speed >>
                    ELSE IF Less(Two, speed) THEN atempo_fast(speed)
                    ELSE atempo_slow(speed)]

\* the color grades handed to _build_color_filters, in thousandths
Grades ==
    [brightness : {0, 5, 500}, contrast : {1000, 1005, 1500},
     saturation : {1000, 500}, sharpness : {0, 500, 0 - 500},
     shadows : {0, 0 - 4, 400}, temperature : {0, 50000},
     tint : {0, 0 - 50000}]

\* if abs(value - neutral) >= 0.01
changed_always(value, neutral) == TRUE

changed(value, neutral) == Abs(value - neutral) >= 10

\* eq_params: brightness, contrast, saturation and gamma = 1.0 + shadows * 0.5
eq_params(g) ==
    (IF changed(g.brightness, 0)
     THEN << [name |-> "brightness", value |-> g.brightness] >> ELSE << >>)
    \o (IF changed(g.contrast, 1000)
        THEN << [name |-> "contrast", value |-> g.contrast] >> ELSE << >>)
    \o (IF changed(g.saturation, 1000)
        THEN << [name |-> "saturation", value |-> g.saturation] >> ELSE << >>)
    \o (IF changed(g.shadows, 0)
        THEN << [name |-> "gamma", value |-> 1000 + g.shadows \div 2] >>
        ELSE << >>)

\* unsharp=5:5:{sharpness * 2.0} or boxblur={abs(sharpness) * 3.0}
sharpness_filter(g) ==
    IF ~changed(g.sharpness, 0) THEN << >>
    ELSE IF g.sharpness > 0
         THEN << [name |-> "unsharp", value |-> g.sharpness * 2] >>
         ELSE << [name |-> "boxblur", value |-> Abs(g.sharpness) * 3] >>

\* colorchannelmixer: rr, gg and bb from temperature and tint, the other six
\* coefficients stay 0.0
colorchannelmixer(g) ==
    LET temp_factor == g.temperature \div 100
        tint_factor == g.tint \div 100
        temp_strength == Max(0, Min(300, (Abs(temp_factor) * 3) \div 10))
        tint_strength == Max(0, Min(300, (Abs(tint_factor) * 3) \div 10))
        rr1 == IF temp_factor > 0 THEN 1000 + temp_strength
               ELSE IF temp_factor < 0 THEN 1000 - temp_strength ELSE 1000
        bb1 == IF temp_factor > 0 THEN 1000 - temp_strength
               ELSE IF temp_factor < 0 THEN 1000 + temp_strength ELSE 1000
        gg1 == IF tint_factor > 0 THEN 1000 + tint_strength
               ELSE IF tint_factor < 0 THEN 1000 - tint_strength ELSE 1000
        rr2 == IF tint_factor < 0 THEN Max(1000, rr1 + tint_strength \div 2)
               ELSE rr1
        bb2 == IF tint_factor < 0 THEN Max(1000, bb1 + tint_strength \div 2)
               ELSE bb1
    IN  IF changed(g.temperature, 0) \/ changed(g.tint, 0)
        THEN IF Abs(temp_factor) >= 10 \/ Abs(tint_factor) >= 10
             THEN << [name |-> "colorchannelmixer",
                      rr |-> Max(0, Min(2000, rr2)),
                      gg |-> Max(0, Min(2000, gg1)),
                      bb |-> Max(0, Min(2000, bb2))] >>
             ELSE << >>
        ELSE << >>

\* _build_color_filters: eq, then unsharp or boxblur, then colorchannelmixer
build_color_filters(g) ==
    (IF eq_params(g) # << >>
     THEN << [name |-> "eq", params |-> eq_params(g)] >> ELSE << >>)
    \o sharpness_filter(g)
    \o colorchannelmixer(g)

\* a speed and a color grade to build the filters of
InitBuild ==
    /\ InitWorker
    /\ NoBatch
    /\ NoUtility
    /\ budget = [calls |-> 0, stops |-> 0, lines |-> 0, faults |-> 0,
                 kinds |-> "all", mode |-> "build"]
    /\ \E speed \in Speeds, grade \in Grades :
         bc = [pc |-> "start", speed |-> speed, grade |-> grade,
               video_filters |-> << >>, audio_filters |-> << >>,
               color_filters |-> << >>]

\* a call of _build_speed_filters(speed)
BuildSpeed ==
    /\ bc.pc = "start"
    /\ bc' = [bc EXCEPT !.pc = "speed",
                        !.video_filters = build_speed_filters(bc.speed).video,
                        !.audio_filters = build_speed_filters(bc.speed).audio]
    /\ UNCHANGED <<supervisorVars, batchVars, utilityVars>>

\* a call of _build_color_filters(brightness, ..., tint)
BuildColor ==
    /\ bc.pc = "speed"
    /\ bc' = [bc EXCEPT !.pc = "color",
                        !.color_filters = build_color_filters(bc.grade)]
    /\ UNCHANGED <<supervisorVars, batchVars, utilityVars>>

NextBuild ==
    \/ BuildSpeed
    \/ BuildColor

SpecBuild == InitBuild /\ [][NextBuild]_vars

(***************************************************************************)
(* FFmpegWorker._build_aspect_ratio_filters, and the part of build_command *)
(* that calls it.  The aspect ratios are compared as fractions; a run over *)
(* all sizes up to 2200x2200 gives the same rectangles as the floating     *)
(* point of the code.                                                      *)
(***************************************************************************)
Aspects == {"16:9", "9:16", "4:3", ""}

Widths == {1, 9, 16, 607, 1080, 1280, 1440, 1920, 1921, 3840}

Heights == {1, 9, 16, 720, 1080, 1081, 1920, 2160}

\* target_aspect = 16 / 9 or 9 / 16
target_aspect(aspect_ratio) ==
    IF aspect_ratio = "16:9" THEN << 16, 9 >> ELSE << 9, 16 >>

\* abs(current_aspect - target_aspect) < 0.01, current_aspect = width / height
near_target(target, width, height) ==
    Abs(width * target[2] - target[1] * height) * 100 < height * target[2]

Crop(w, h, x, y) == [name |-> "crop", w |-> w, h |-> h, x |-> x, y |-> y]

build_aspect_ratio_filters_corner(aspect_ratio, input_width, input_height) ==
    IF aspect_ratio \notin {"16:9", "9:16"} THEN << >>
    ELSE LET target == target_aspect(aspect_ratio)
         IN  IF near_target(target, input_width, input_height) THEN << >>
             ELSE IF input_width * target[2] > target[1] * input_height
                  THEN << Crop((input_height * target[1]) \div target[2],
                               input_height, 0, 0) >>
                  ELSE << Crop(input_width,
                               (input_width * target[2]) \div target[1],
                               0, 0) >>

\* _build_aspect_ratio_filters: a centered crop that keeps the height when
\* the source is wider than the target and the width otherwise
build_aspect_ratio_filters(aspect_ratio, input_width, input_height) ==
    IF aspect_ratio \notin {"16:9", "9:16"} THEN << >>
    ELSE LET target == target_aspect(aspect_ratio)
         IN  IF near_target(target, input_width, input_height) THEN << >>
             ELSE IF input_width * target[2] > target[1] * input_height
                  THEN LET new_width ==
                             (input_height * target[1]) \div target[2]
                       IN  << Crop(new_width, input_height,
                                   (input_width - new_width) \div 2, 0) >>
                  ELSE LET new_height ==
                             (input_width * target[2]) \div target[1]
                       IN  << Crop(input_width, new_height,
                                   0, (input_height - new_height) \div 2) >>

\* build_command: if aspect_ratio: ... if abs(current_aspect - target_aspect)
\* >= 0.01: aspect_filters = self._build_aspect_ratio_filters(...); an unknown
\* ratio takes the current aspect as its target
command_aspect_filters(aspect_ratio, input_width, input_height) ==
    IF aspect_ratio = "" THEN << >>
    ELSE IF aspect_ratio \notin {"16:9", "9:16"} THEN << >>
    ELSE IF near_target(target_aspect(aspect_ratio), input_width, input_height)
         THEN << >>
         ELSE build_aspect_ratio_filters(aspect_ratio, input_width,
                                         input_height)

\* an aspect ratio and a source size to build the crop of
InitAspect ==
    /\ InitWorker
    /\ NoBatch
    /\ NoUtility
    /\ budget = [calls |-> 0, stops |-> 0, lines |-> 0, faults |-> 0,
                 kinds |-> "all", mode |-> "build"]
    /\ \E aspect \in Aspects, width \in Widths, height \in Heights :
         bc = [pc |-> "start", aspect_ratio |-> aspect,
               input_width |-> width, input_height |-> height,
               aspect_filters |-> << >>, command_filters |-> << >>]

\* a call of _build_aspect_ratio_filters(aspect_ratio, width, height)
BuildAspect ==
    /\ bc.pc = "start"
    /\ bc' = [bc EXCEPT
                !.pc = "aspect",
                !.aspect_filters =
                    build_aspect_ratio_filters(bc.aspect_ratio, bc.input_width,
                                               bc.input_height)]
    /\ UNCHANGED <<supervisorVars, batchVars, utilityVars>>

\* the aspect ratio part of build_command for the same arguments
CommandAspect ==
    /\ bc.pc = "aspect"
    /\ bc' = [bc EXCEPT
                !.pc = "command",
                !.command_filters =
                    command_aspect_filters(bc.aspect_ratio, bc.input_width,
                                           bc.input_height)]
    /\ UNCHANGED <<supervisorVars, batchVars, utilityVars>>

NextAspect ==
    \/ BuildAspect
    \/ CommandAspect

SpecAspect == InitAspect /\ [][NextAspect]_vars

(***************************************************************************)
(* FFmpegWorker.build_command.  The command is the list of its arguments;  *)
(* a filter chain is the list of the filters that ",".join writes into the *)
(* argument of -vf or -af.  Times are in hundredths of a second.           *)
(***************************************************************************)
Flag(text) == [kind |-> "flag", text |-> text]

Word(text) == [kind |-> "word", text |-> text]

Seconds(value) == [kind |-> "seconds", value |-> value]

Chain(filters) == [kind |-> "chain", filters |-> filters]

NeutralGrade ==
    [brightness |-> 0, contrast |-> 1000, saturation |-> 1000,
     sharpness |-> 0, shadows |-> 0, temperature |-> 0, tint |-> 0]

\* the color grades of the commands: neutral, every filter with unsharp,
\* boxblur alone, and a grade below the threshold
CommandGrades ==
    { NeutralGrade,
      [brightness |-> 500, contrast |-> 1500, saturation |-> 500,
       sharpness |-> 500, shadows |-> 400, temperature |-> 50000,
       tint |-> 0 - 50000],
      [NeutralGrade EXCEPT !.sharpness = 0 - 500],
      [NeutralGrade EXCEPT !.brightness = 5] }

\* (start_time, end_time) of the commands: 10.0 to 20.0 and 0.0 to 5.0
CommandTimes == { << 1000, 2000 >>, << 0, 500 >> }

\* (input_width, input_height) of the commands
CommandSizes == { << 1920, 1080 >>, << 1080, 1920 >> }

\* the caller's filters
CommandFilters == { << >>, << [name |-> "custom", text |-> "hflip"] >> }

\* encoding_profile: None, or a profile of ENCODING_PROFILES
CommandProfiles == {"none", "balanced"}

\* "-t": input_duration + 0.5 when the speed changes, else input_duration
command_duration_plain(speed, input_duration) == input_duration

command_duration(speed, input_duration) ==
    IF ~near_one(speed) THEN input_duration + 50 ELSE input_duration

\* cmd up to the filters: ffmpeg -y -i input -ss start -t duration
\* -avoid_negative_ts make_zero -async 1 [-shortest]
command_head(start_time, end_time, speed) ==
    << Word("ffmpeg"), Flag("-y"), Flag("-i"), Word("input_file"),
       Flag("-ss"), Seconds(start_time),
       Flag("-t"), Seconds(command_duration(speed, end_time - start_time)),
       Flag("-avoid_negative_ts"), Word("make_zero"),
       Flag("-async"), Word("1") >>
    \o (IF ~near_one(speed) THEN << Flag("-shortest") >> ELSE << >>)

setpts_speed(speeds) ==
    [k \in 1..Len(speeds) |-> [name |-> "setpts=PTS/speed",
                               speed |-> speeds[k]]]

atempo(tempos) ==
    [k \in 1..Len(tempos) |-> [name |-> "atempo", tempo |-> tempos[k]]]

\* trim=start=0:duration={input_duration},setpts=PTS-STARTPTS and the
\* video filters of _build_speed_filters
command_speed_video(speed, input_duration) ==
    IF ~near_one(speed)
    THEN << [name |-> "trim", start |-> 0, duration |-> input_duration],
            [name |-> "setpts=PTS-STARTPTS"] >>
         \o setpts_speed(build_speed_filters(speed).video)
    ELSE << >>

\* atrim=start=0:duration={input_duration},asetpts=PTS-STARTPTS and the
\* audio filters of _build_speed_filters
command_audio_filters(speed, input_duration) ==
    IF ~near_one(speed)
    THEN << [name |-> "atrim", start |-> 0, duration |-> input_duration],
            [name |-> "asetpts=PTS-STARTPTS"] >>
         \o atempo(build_speed_filters(speed).audio)
    ELSE << >>

\* video_filters_list: speed, color, aspect ratio, then the caller's filters
command_video_filters_crop_first(speed_filters, color_filters, aspect_filters, filters) ==
    speed_filters \o aspect_filters \o color_filters \o filters

command_video_filters(speed_filters, color_filters, aspect_filters, filters) ==
    speed_filters \o color_filters \o aspect_filters \o filters

\* -c:v, -preset, -crf, -c:a, -b:a of the profile, when there is one
command_encoding(encoding_profile) ==
    IF encoding_profile = "none" THEN << >>
    ELSE << Flag("-c:v"), Word("libx264"), Flag("-preset"), Word("medium"),
            Flag("-crf"), Word("20"), Flag("-c:a"), Word("aac"),
            Flag("-b:a"), Word("192k") >>

\* the arguments of one build_command call
InitCommand ==
    /\ InitWorker
    /\ NoBatch
    /\ NoUtility
    /\ budget = [calls |-> 0, stops |-> 0, lines |-> 0, faults |-> 0,
                 kinds |-> "all", mode |-> "build"]
    /\ \E speed \in Speeds, grade \in CommandGrades,
          aspect \in {"", "16:9", "9:16"}, size \in CommandSizes,
          times \in CommandTimes, filters \in CommandFilters,
          profile \in CommandProfiles :
         bc = [pc |-> "start", speed |-> speed, grade |-> grade,
               aspect_ratio |-> aspect, input_width |-> size[1],
               input_height |-> size[2], start_time |-> times[1],
               end_time |-> times[2], filters |-> filters,
               encoding_profile |-> profile, cmd |-> << >>,
               video_filters_list |-> << >>, audio_filters_list |-> << >>]

\* cmd = [ffmpeg, -y], -i, -ss, -t, -avoid_negative_ts, -async, -shortest
CommandHead ==
    /\ bc.pc = "start"
    /\ bc' = [bc EXCEPT !.pc = "filters",
                        !.cmd = command_head(bc.start_time, bc.end_time,
                                             bc.speed)]
    /\ UNCHANGED <<supervisorVars, batchVars, utilityVars>>

\* video_filters_list and audio_filters_list are filled
CommandBuildFilters ==
    /\ bc.pc = "filters"
    /\ bc' = [bc EXCEPT
                !.pc = "options",
                !.video_filters_list =
                    command_video_filters(
                        command_speed_video(bc.speed,
                                            bc.end_time - bc.start_time),
                        build_color_filters(bc.grade),
                        command_aspect_filters(bc.aspect_ratio,
                                               bc.input_width,
                                               bc.input_height),
                        bc.filters),
                !.audio_filters_list =
                    command_audio_filters(bc.speed,
                                          bc.end_time - bc.start_time)]
    /\ UNCHANGED <<supervisorVars, batchVars, utilityVars>>

\* -vf and -af are added for the lists that are not empty
CommandFilterOptions ==
    /\ bc.pc = "options"
    /\ bc' = [bc EXCEPT
                !.pc = "encoding",
                !.cmd = bc.cmd
                        \o (IF bc.video_filters_list # << >>
                            THEN << Flag("-vf"),
                                    Chain(bc.video_filters_list) >>
                            ELSE << >>)
                        \o (IF bc.audio_filters_list # << >>
                            THEN << Flag("-af"),
                                    Chain(bc.audio_filters_list) >>
                            ELSE << >>)]
    /\ UNCHANGED <<supervisorVars, batchVars, utilityVars>>

\* the encoding options, -pix_fmt, -movflags and the output file; the call
\* returns cmd
CommandTail ==
    /\ bc.pc = "encoding"
    /\ bc' = [bc EXCEPT
                !.pc = "done",
                !.cmd = bc.cmd
                        \o command_encoding(bc.encoding_profile)
                        \o << Flag("-pix_fmt"), Word("yuv420p"),
                              Flag("-movflags"), Word("+faststart"),
                              Word("output_file") >>]
    /\ UNCHANGED <<supervisorVars, batchVars, utilityVars>>

build_command ==
    \/ CommandHead
    \/ CommandBuildFilters
    \/ CommandFilterOptions
    \/ CommandTail

NextCommand == build_command

SpecCommand == InitCommand /\ [][NextCommand]_vars

(***************************************************************************)
(* models.py: Project.save_to_file and Project.load_from_file, with        *)
(* Segment.to_dict and Segment.from_dict.  A Python value is kept with its *)
(* type, a float in thousandths; a dict is a function of its keys; the     *)
(* file holds the JSON values that json.dump writes for them.              *)
(***************************************************************************)
Float(value) == [type |-> "float", value |-> value]

Str(value) == [type |-> "str", value |-> value]

Bool(value) == [type |-> "bool", value |-> value]

Path(value) == [type |-> "Path", value |-> value]

MaxProjectSegments == 2

\* Segment(): the defaults of the dataclass
DefaultSegment ==
    [start_time |-> Float(0), end_time |-> Float(0), name |-> Str(""),
     enabled |-> Bool(TRUE), encoding_profile |-> Str("balanced"),
     speed |-> Float(1000), aspect_ratio |-> Str("16:9"),
     brightness |-> Float(0), contrast |-> Float(1000),
     saturation |-> Float(1000), sharpness |-> Float(0),
     shadows |-> Float(0), temperature |-> Float(0), tint |-> Float(0)]

\* the segments of the projects: the defaults, a segment with every field
\* changed, and a disabled one
ProjectSegments ==
    { DefaultSegment,
      [start_time |-> Float(1500), end_time |-> Float(4250),
       name |-> Str("intro"), enabled |-> Bool(TRUE),
       encoding_profile |-> Str("fast"), speed |-> Float(2000),
       aspect_ratio |-> Str("9:16"), brightness |-> Float(100),
       contrast |-> Float(1200), saturation |-> Float(800),
       sharpness |-> Float(0 - 300), shadows |-> Float(250),
       temperature |-> Float(0 - 20000), tint |-> Float(15000)],
      [DefaultSegment EXCEPT !.start_time = Float(4250),
                             !.end_time = Float(9000),
                             !.enabled = Bool(FALSE)] }

SegmentLists ==
    UNION {[1..n -> ProjectSegments] : n \in 0..MaxProjectSegments}

\* json.dump of a value, json.load of what it wrote
json_dump(v) ==
    CASE v.type = "float" -> [json |-> "number", text |-> v.value]
      [] v.type = "str" -> [json |-> "string", text |-> v.value]
      [] v.type = "bool" -> [json |-> IF v.value THEN "true" ELSE "false"]

json_load(j) ==
    CASE j.json = "number" -> Float(j.text)
      [] j.json = "string" -> Str(j.text)
      [] j.json = "true" -> Bool(TRUE)
      [] j.json = "false" -> Bool(FALSE)

\* data.get(key, default)
get(data, key, default) == IF key \in DOMAIN data THEN data[key] ELSE default

\* Segment.to_dict
to_dict(segment) ==
    [start_time |-> segment.start_time, end_time |-> segment.end_time,
     name |-> segment.name, enabled |-> segment.enabled,
     encoding_profile |-> segment.encoding_profile,
     speed |-> segment.speed, aspect_ratio |-> segment.aspect_ratio,
     brightness |-> segment.brightness, contrast |-> segment.contrast,
     saturation |-> segment.saturation, sharpness |-> segment.sharpness,
     shadows |-> segment.shadows, temperature |-> segment.temperature,
     tint |-> segment.tint]

\* Segment.from_dict
from_dict_no_speed(data) ==
    [DefaultSegment EXCEPT !.start_time = get(data, "start_time", Float(0)),
                           !.end_time = get(data, "end_time", Float(0))]

from_dict(data) ==
    [start_time |-> get(data, "start_time", Float(0)),
     end_time |-> get(data, "end_time", Float(0)),
     name |-> get(data, "name", Str("")),
     enabled |-> get(data, "enabled", Bool(TRUE)),
     encoding_profile |-> get(data, "encoding_profile", Str("balanced")),
     speed |-> get(data, "speed", Float(1000)),
     aspect_ratio |-> get(data, "aspect_ratio", Str("16:9")),
     brightness |-> get(data, "brightness", Float(0)),
     contrast |-> get(data, "contrast", Float(1000)),
     saturation |-> get(data, "saturation", Float(1000)),
     sharpness |-> get(data, "sharpness", Float(0)),
     shadows |-> get(data, "shadows", Float(0)),
     temperature |-> get(data, "temperature", Float(0)),
     tint |-> get(data, "tint", Float(0))]

\* the dict of a segment as json.dump writes it and as json.load reads it
dump_dict(data) == [key \in DOMAIN data |-> json_dump(data[key])]

load_dict(text) == [key \in DOMAIN text |-> json_load(text[key])]

\* project_data of save_to_file, written by json.dump
project_data(p) ==
    [project_name |-> json_dump(Str(p.project_name.value)),
     input_file |-> json_dump(Str(p.input_file.value)),
     output_dir |-> json_dump(Str(p.output_dir.value)),
     export_mode |-> json_dump(p.export_mode),
     export_method |-> json_dump(p.export_method),
     segments |-> [k \in 1..Len(p.segments) |->
                     dump_dict(to_dict(p.segments[k]))]]

\* the Project that load_from_file makes of the file
loaded_project(file) ==
    [input_file |-> Path(json_load(file["input_file"]).value),
     output_dir |-> Path(json_load(file["output_dir"]).value),
     segments |-> [k \in 1..Len(get(file, "segments", << >>)) |->
                     from_dict(load_dict(file["segments"][k]))],
     export_mode |-> json_load(get(file, "export_mode",
                                   json_dump(Str("split")))),
     export_method |-> json_load(get(file, "export_method",
                                     json_dump(Str("fast")))),
     project_name |-> json_load(get(file, "project_name",
                                    json_dump(Str("Untitled Project"))))]

NoFile == [exists |-> FALSE]

NoProject == [exists |-> FALSE]

\* a Project, and whether its file can be written
InitProject ==
    /\ InitWorker
    /\ NoBatch
    /\ bc = NoBuild
    /\ budget = [calls |-> 0, stops |-> 0, lines |-> 0, faults |-> 0,
                 kinds |-> "all", mode |-> "project"]
    /\ tc = [pc |-> "none"]
    /\ probe = [pc |-> "none"]
    /\ tmp = [pc |-> "none"]
    /\ preview = [pc |-> "none"]
    /\ tempo = [pc |-> "none"]
    /\ \E input \in {"in.mp4", "clips/a b.mkv"},
          list \in SegmentLists, mode \in {"split", "concat"},
          method \in {"fast", "accurate"},
          name \in {"Untitled Project", "shorts"}, writable \in BOOLEAN :
         project = [pc |-> "start",
                    self |-> [input_file |-> Path(input),
                              output_dir |-> Path("out"),
                              segments |-> list,
                              export_mode |-> Str(mode),
                              export_method |-> Str(method),
                              project_name |-> Str(name)],
                    writable |-> writable, file |-> NoFile,
                    saved |-> FALSE, loaded |-> NoProject]

\* save_to_file: the file is written and True returned, or an exception of
\* open or json.dump is caught and False returned
save_to_file ==
    /\ project.pc = "start"
    /\ project' =
         IF project.writable
         THEN [project EXCEPT
                 !.pc = "saved", !.saved = TRUE,
                 !.file = [exists |-> TRUE,
                           data |-> project_data(project.self)]]
         ELSE [project EXCEPT !.pc = "saved", !.saved = FALSE]
    /\ UNCHANGED <<supervisorVars, batchVars, bc, tc, probe, tmp, preview,
                   tempo>>

\* load_from_file: the Project of the file, or None for an exception
load_from_file ==
    /\ project.pc = "saved"
    /\ project' =
         IF project.file.exists
         THEN [project EXCEPT
                 !.pc = "loaded",
                 !.loaded = [exists |-> TRUE,
                             self |-> loaded_project(project.file.data)]]
         ELSE [project EXCEPT !.pc = "loaded", !.loaded = NoProject]
    /\ UNCHANGED <<supervisorVars, batchVars, bc, tc, probe, tmp, preview,
                   tempo>>

NextProject ==
    \/ save_to_file
    \/ load_from_file

SpecProject == InitProject /\ [][NextProject]_vars

(***************************************************************************)
(* utils/timecode.py: seconds_to_timecode and timecode_to_seconds.  A time *)
(* is a whole number of milliseconds; seconds_to_timecode gets the double  *)
(* nearest to it.  The digits that the double loses are followed through   *)
(* the binary expansion of the milliseconds, which needs small numbers     *)
(* only; the operators give the fields that the Python code gives on       *)
(* 600000 times up to 10^9 ms.                                             *)
(***************************************************************************)
MaxTime == 2100

\* the times handed to seconds_to_timecode, in milliseconds
Times ==
    (0..MaxTime)
    \cup {0 - 1, 0 - 3200, 59999, 60000, 90500, 330250, 3599999, 3600000,
          3725001, 5445250}

RECURSIVE bit_length(_)
bit_length(n) == IF n = 0 THEN 0 ELSE 1 + bit_length(n \div 2)

\* the zero bits between the binary point and the first one of ms / 1000
RECURSIVE leading_zeros(_)
leading_zeros(r) == IF 2 * r < 1000 THEN 1 + leading_zeros(2 * r) ELSE 0

\* the bits that a double keeps after the binary point of n + ms / 1000
fraction_bits(n, ms) ==
    IF n >= 1 THEN 53 - bit_length(n) ELSE 53 + leading_zeros(ms)

\* the remainder of ms / 1000 after k bits, and the last of these bits,
\* eight bits at a time while eight are left
RECURSIVE expansion(_, _, _)
expansion(r, last, k) ==
    IF k = 0 THEN << r, last >>
    ELSE IF k >= 8
    THEN expansion((256 * r) % 1000,
                   IF 2 * ((128 * r) % 1000) >= 1000 THEN 1 ELSE 0, k - 8)
    ELSE expansion((2 * r) % 1000, IF 2 * r >= 1000 THEN 1 ELSE 0, k - 1)

\* int((secs - int(secs)) * 1000) for seconds = n + ms / 1000 as a double:
\* the fraction of a double that was rounded down is below ms / 1000, and the
\* product is below ms unless it rounds back to ms
float_milliseconds(n, ms) ==
    LET F == fraction_bits(n, ms)
        e == expansion(ms, 0, F)
        r == e[1]
        up == 2 * r > 1000 \/ (2 * r = 1000 /\ e[2] = 1)
        E == bit_length(ms) - (IF 2 ^ (bit_length(ms) - 1) = ms THEN 1 ELSE 0)
        k == E + F - 54
    IN  IF ms = 0 \/ r = 0 \/ up THEN ms
        ELSE IF k >= 10 \/ (k >= 0 /\ r <= 2 ^ k) THEN ms
        ELSE ms - 1

\* seconds_to_timecode: the fields of HH:MM:SS.mmm, or of MM:SS.mmm
seconds_to_timecode(seconds, include_hours) ==
    LET t == IF seconds < 0 THEN 0 ELSE seconds
        n == t \div 1000
        hours == n \div 3600
        minutes == (n % 3600) \div 60
        secs_int == n % 60
        milliseconds == float_milliseconds(n, t % 1000)
    IN  IF include_hours \/ hours > 0
        THEN [parts |-> << hours, minutes, secs_int >>,
              milliseconds |-> milliseconds]
        ELSE [parts |-> << minutes, secs_int >>,
              milliseconds |-> milliseconds]

\* timecode_to_seconds: hours * 3600 + minutes * 60 + float(seconds_part),
\* in milliseconds
timecode_to_seconds(timecode) ==
    LET parts == timecode.parts
        whole == IF Len(parts) = 3
                 THEN parts[1] * 3600 + parts[2] * 60 + parts[3]
                 ELSE IF Len(parts) = 2 THEN parts[1] * 60 + parts[2]
                 ELSE parts[1]
    IN  whole * 1000 + timecode.milliseconds

NoTimecode == [parts |-> << >>, milliseconds |-> 0]

\* a time and the format asked for
InitTimecode ==
    /\ InitWorker
    /\ NoBatch
    /\ bc = NoBuild
    /\ budget = [calls |-> 0, stops |-> 0, lines |-> 0, faults |-> 0,
                 kinds |-> "all", mode |-> "timecode"]
    /\ project = [pc |-> "none"]
    /\ probe = [pc |-> "none"]
    /\ tmp = [pc |-> "none"]
    /\ preview = [pc |-> "none"]
    /\ tempo = [pc |-> "none"]
    /\ \E seconds \in Times, include_hours \in BOOLEAN :
         tc = [pc |-> "start", seconds |-> seconds,
               include_hours |-> include_hours, timecode |-> NoTimecode,
               parsed |-> 0]

\* timecode = seconds_to_timecode(seconds, include_hours)
TimecodeFormat ==
    /\ tc.pc = "start"
    /\ tc' = [tc EXCEPT !.pc = "formatted",
                        !.timecode = seconds_to_timecode(tc.seconds,
                                                         tc.include_hours)]
    /\ UNCHANGED <<supervisorVars, batchVars, bc, project, probe, tmp,
                   preview, tempo>>

\* parsed = timecode_to_seconds(timecode)
TimecodeParse ==
    /\ tc.pc = "formatted"
    /\ tc' = [tc EXCEPT !.pc = "parsed",
                        !.parsed = timecode_to_seconds(tc.timecode)]
    /\ UNCHANGED <<supervisorVars, batchVars, bc, project, probe, tmp,
                   preview, tempo>>

NextTimecode ==
    \/ TimecodeFormat
    \/ TimecodeParse

SpecTimecode == InitTimecode /\ [][NextTimecode]_vars

(***************************************************************************)
(* ffprobe_utils.py: get_video_info, get_video_duration, get_video_fps,    *)
(* and the probing at the start of export_segments_accurate.               *)
(***************************************************************************)
\* what can go wrong with one probing
ProbeFaults ==
    {"none", "source_missing", "probe_missing", "nonzero_exit",
     "unparsable", "no_video"}

\* the callers of get_video_info
ProbeCallers ==
    {"get_video_info", "get_video_duration", "get_video_fps",
     "export_segments_accurate"}

\* what ffprobe reports of the sources: width, height, duration in
\* hundredths of a second, frames per second
VideoInfos ==
    [width : {1920, 1080, 640}, height : {1080, 1920}, duration : {500, 6000},
     fps : {25, 30}]

None == [none |-> TRUE]

DefaultWidth == 1920

DefaultHeight == 1080

\* the try block of get_video_info: the dict, or None for a failing
\* ffprobe, a JSONDecodeError, any other exception, or no video stream
video_info(fault, video) ==
    IF fault = "none"
    THEN [none |-> FALSE, width |-> video.width, height |-> video.height,
          duration |-> video.duration, fps |-> video.fps]
    ELSE None

\* what the caller makes of the info
probe_result(caller, info) ==
    CASE caller = "get_video_info" -> info
      [] caller = "get_video_duration" ->
           IF info.none THEN 0 ELSE info.duration
      [] caller = "get_video_fps" -> IF info.none THEN 0 ELSE info.fps
      [] caller = "export_segments_accurate" ->
           << IF info.none THEN DefaultWidth ELSE info.width,
              IF info.none THEN DefaultHeight ELSE info.height >>

\* a caller, a source and a fault
InitProbe ==
    /\ InitWorker
    /\ NoBatch
    /\ bc = NoBuild
    /\ budget = [calls |-> 0, stops |-> 0, lines |-> 0, faults |-> 0,
                 kinds |-> "all", mode |-> "probe"]
    /\ project = [pc |-> "none"]
    /\ tc = [pc |-> "none"]
    /\ tmp = [pc |-> "none"]
    /\ preview = [pc |-> "none"]
    /\ tempo = [pc |-> "none"]
    /\ \E caller \in ProbeCallers, fault \in ProbeFaults,
          video \in VideoInfos :
         probe = [pc |-> "start", caller |-> caller, fault |-> fault,
                  video |-> video, info |-> None, result |-> None]

\* ffprobe_path = find_ffprobe(): outside the try block, its
\* FileNotFoundError leaves get_video_info and the caller
ProbeFind ==
    /\ probe.pc = "start"
    /\ probe' = [probe EXCEPT !.pc = IF probe.fault = "probe_missing"
                                     THEN "raised" ELSE "run"]
    /\ UNCHANGED <<supervisorVars, batchVars, bc, project, tc, tmp, preview,
                   tempo>>

\* subprocess.run(cmd, check=True), json.loads, the search of the video
\* stream: get_video_info returns
ProbeRun ==
    /\ probe.pc = "run"
    /\ probe' = [probe EXCEPT !.pc = "info",
                              !.info = video_info(probe.fault, probe.video)]
    /\ UNCHANGED <<supervisorVars, batchVars, bc, project, tc, tmp, preview,
                   tempo>>

\* the caller goes on with the info
ProbeReturn ==
    /\ probe.pc = "info"
    /\ probe' = [probe EXCEPT !.pc = "returned",
                              !.result = probe_result(probe.caller,
                                                      probe.info)]
    /\ UNCHANGED <<supervisorVars, batchVars, bc, project, tc, tmp, preview,
                   tempo>>

NextProbe ==
    \/ ProbeFind
    \/ ProbeRun
    \/ ProbeReturn

SpecProbe == InitProbe /\ [][NextProbe]_vars

(***************************************************************************)
(* The temporary directory of _export_concat_fast and                      *)
(* _export_concat_accurate, for two export calls that run at the same time *)
(* (two SegmentWorkers, or two instances of the application): the          *)
(* directory is named after int(time.time()) and made with exist_ok=True,  *)
(* the files in it are segment_000.mp4, segment_001.mp4, ... and           *)
(* concat_list.txt for every call.                                         *)
(***************************************************************************)
MaxClock == 2

MaxTempFiles == 2

ConcatCalls == {1, 2}

\* a directory that does not exist; in one that does, files[k] and list
\* hold the call that wrote segment_00k.mp4 and concat_list.txt, 0 for none
NoDir == [exists |-> FALSE, files |-> [k \in 1..MaxTempFiles |-> 0], list |-> 0]

InitTemp ==
    /\ InitWorker
    /\ NoBatch
    /\ bc = NoBuild
    /\ budget = [calls |-> 0, stops |-> 0, lines |-> 0, faults |-> 0,
                 kinds |-> "all", mode |-> "concat"]
    /\ project = [pc |-> "none"]
    /\ tc = [pc |-> "none"]
    /\ probe = [pc |-> "none"]
    /\ preview = [pc |-> "none"]
    /\ tempo = [pc |-> "none"]
    /\ \E total \in [ConcatCalls -> 1..MaxTempFiles] :
         tmp = [pc |-> "run", clock |-> 0,
                dirs |-> [d \in 0..MaxClock |-> NoDir],
                call |-> [c \in ConcatCalls |->
                            [pc |-> "idle", temp_dir |-> 0,
                             total |-> total[c], written |-> 0,
                             joined |-> << >>, ret |-> "none"]]]

\* time.time() reaches the next second
TempTick ==
    /\ tmp.pc = "run"
    /\ tmp.clock < MaxClock
    /\ tmp' = [tmp EXCEPT !.clock = @ + 1]
    /\ UNCHANGED <<supervisorVars, batchVars, bc, project, tc, probe,
                   preview, tempo>>

\* temp_dir = gettempdir() / f"videocutter_concat_{int(time.time())}";
\* temp_dir.mkdir(parents=True, exist_ok=True)
TempMkdir(c) ==
    /\ tmp.pc = "run"
    /\ tmp.call[c].pc = "idle"
    /\ tmp' = [tmp EXCEPT !.call[c].pc = "loop",
                          !.call[c].temp_dir = tmp.clock,
                          !.dirs[tmp.clock].exists = TRUE]
    /\ UNCHANGED <<supervisorVars, batchVars, bc, project, tc, probe,
                   preview, tempo>>

\* ffmpeg -y ... temp_dir / segment_{i:03d}.mp4; without the directory
\* ffmpeg fails and the call returns False
TempWrite(c) ==
    /\ tmp.pc = "run"
    /\ tmp.call[c].pc = "loop"
    /\ tmp.call[c].written < tmp.call[c].total
    /\ IF tmp.dirs[tmp.call[c].temp_dir].exists
       THEN tmp' = [tmp EXCEPT
                      !.call[c].written = @ + 1,
                      !.dirs[tmp.call[c].temp_dir].files[
                          tmp.call[c].written + 1] = c]
       ELSE tmp' = [tmp EXCEPT !.call[c].pc = "finally",
                               !.call[c].ret = "False"]
    /\ UNCHANGED <<supervisorVars, batchVars, bc, project, tc, probe,
                   preview, tempo>>

\* with open(concat_list, 'w'): the list of temp_files; without the
\* directory open raises FileNotFoundError, which only the finally sees
TempList(c) ==
    /\ tmp.pc = "run"
    /\ tmp.call[c].pc = "loop"
    /\ tmp.call[c].written = tmp.call[c].total
    /\ IF tmp.dirs[tmp.call[c].temp_dir].exists
       THEN tmp' = [tmp EXCEPT !.call[c].pc = "join",
                               !.dirs[tmp.call[c].temp_dir].list = c]
       ELSE tmp' = [tmp EXCEPT !.call[c].pc = "finally",
                               !.call[c].ret = "raised"]
    /\ UNCHANGED <<supervisorVars, batchVars, bc, project, tc, probe,
                   preview, tempo>>

\* ffmpeg -f concat -i concat_list.txt: joins the files of the list as they
\* are in the directory now; fails when the list or one of them is missing
TempJoin(c) ==
    /\ tmp.pc = "run"
    /\ tmp.call[c].pc = "join"
    /\ LET dir == tmp.dirs[tmp.call[c].temp_dir]
       IN  IF /\ dir.exists
              /\ dir.list # 0
              /\ \A k \in 1..tmp.call[c].total : dir.files[k] # 0
           THEN tmp' = [tmp EXCEPT
                          !.call[c].pc = "finally",
                          !.call[c].ret = "True",
                          !.call[c].joined =
                              [k \in 1..tmp.call[c].total |-> dir.files[k]]]
           ELSE tmp' = [tmp EXCEPT !.call[c].pc = "finally",
                                   !.call[c].ret = "False"]
    /\ UNCHANGED <<supervisorVars, batchVars, bc, project, tc, probe,
                   preview, tempo>>

\* finally: if temp_dir.exists(): shutil.rmtree(temp_dir)
TempCleanup(c) ==
    /\ tmp.pc = "run"
    /\ tmp.call[c].pc = "finally"
    /\ tmp' = [tmp EXCEPT !.call[c].pc = "done",
                          !.dirs[tmp.call[c].temp_dir] = NoDir]
    /\ UNCHANGED <<supervisorVars, batchVars, bc, project, tc, probe,
                   preview, tempo>>

NextTemp ==
    \/ TempTick
    \/ \E c \in ConcatCalls : TempMkdir(c)
    \/ \E c \in ConcatCalls : TempWrite(c)
    \/ \E c \in ConcatCalls : TempList(c)
    \/ \E c \in ConcatCalls : TempJoin(c)
    \/ \E c \in ConcatCalls : TempCleanup(c)

SpecTemp == InitTemp /\ [][NextTemp]_vars

(***************************************************************************)
(* player_vlc.py: the preview regeneration of VLCPlayer.  The handlers run *)
(* on the main thread, one at a time; what a PreviewThread emits           *)
(* (preview_ready or preview_failed, then finished) is queued for the main *)
(* thread in the order of emission.  A request and its temporary file are  *)
(* named by the request id; 0 stands for None and for the original file.   *)
(***************************************************************************)
MaxRequests == 3

MaxChanges == 3

RequestIds == 1..MaxRequests

NoThread == [state |-> "none", interruption |-> FALSE]

\* _cleanup_preview_file(path): the file is unlinked
unlink(files, path) == files \ {path}

InitPreview ==
    /\ InitWorker
    /\ NoBatch
    /\ bc = NoBuild
    /\ budget = [calls |-> 0, stops |-> 0, lines |-> 0, faults |-> 0,
                 kinds |-> "all", mode |-> "preview"]
    /\ project = [pc |-> "none"]
    /\ tc = [pc |-> "none"]
    /\ probe = [pc |-> "none"]
    /\ tmp = [pc |-> "none"]
    /\ tempo = [pc |-> "none"]
    /\ preview = [pc |-> "run",
                  use_ffmpeg_preview |-> FALSE,
                  preview_temp_file |-> 0,
                  pending_color_params |-> FALSE,
                  timer |-> FALSE,
                  preview_thread |-> 0,
                  preview_generation_counter |-> 0,
                  active_preview_request_id |-> 0,
                  current_file |-> 0,
                  threads |-> [r \in RequestIds |-> NoThread],
                  queue |-> << >>,
                  files |-> {},
                  changes |-> 0,
                  superseded |-> {}]

\* set_color_correction with sharpness or shadows set: the FFmpeg preview is
\* asked for and the debounce timer restarted.  changes and superseded are
\* history: the calls so far, and the requests issued before a newer request
\* or a color change.
SetColorFFmpeg ==
    /\ preview.pc = "run"
    /\ preview.changes < MaxChanges
    /\ preview' = [preview EXCEPT
                     !.use_ffmpeg_preview = TRUE,
                     !.pending_color_params = TRUE,
                     !.timer = TRUE,
                     !.changes = @ + 1,
                     !.superseded = 1..preview.preview_generation_counter]
    /\ UNCHANGED <<supervisorVars, batchVars, bc, project, tc, probe, tmp,
                   tempo>>

\* set_color_correction without sharpness and shadows: the FFmpeg preview is
\* switched off when it was on
SetColorVLC ==
    /\ preview.pc = "run"
    /\ preview.changes < MaxChanges
    /\ preview' =
         IF preview.use_ffmpeg_preview
         THEN [preview EXCEPT
                 !.use_ffmpeg_preview = FALSE,
                 !.timer = FALSE,
                 !.pending_color_params = FALSE,
                 !.active_preview_request_id = 0,
                 !.files = unlink(@, preview.preview_temp_file),
                 !.preview_temp_file = 0,
                 !.changes = @ + 1,
                 !.superseded = 1..preview.preview_generation_counter]
         ELSE [preview EXCEPT
                 !.changes = @ + 1,
                 !.superseded = 1..preview.preview_generation_counter]
    /\ UNCHANGED <<supervisorVars, batchVars, bc, project, tc, probe, tmp,
                   tempo>>

set_color_correction == SetColorFFmpeg \/ SetColorVLC

\* the timer fires: _update_preview_debounced
update_preview_debounced ==
    /\ preview.pc = "run"
    /\ preview.timer
    /\ preview.preview_generation_counter < MaxRequests
    /\ IF ~preview.pending_color_params
       THEN preview' = [preview EXCEPT !.timer = FALSE]
       ELSE LET request_id == preview.preview_generation_counter + 1
                old_thread == preview.preview_thread
                running == /\ old_thread # 0
                           /\ preview.threads[old_thread].state = "running"
            IN  preview' =
                  [preview EXCEPT
                     !.timer = FALSE,
                     !.pending_color_params = FALSE,
                     !.files = unlink(@, preview.preview_temp_file),
                     !.preview_temp_file = request_id,
                     !.preview_generation_counter = request_id,
                     !.active_preview_request_id = request_id,
                     !.preview_thread = request_id,
                     !.threads =
                         [r \in RequestIds |->
                            IF r = request_id
                            THEN [state |-> "running", interruption |-> FALSE]
                            ELSE IF running /\ r = old_thread
                            THEN [@[r] EXCEPT !.interruption = TRUE]
                            ELSE @[r]],
                     !.superseded = 1..preview.preview_generation_counter]
    /\ UNCHANGED <<supervisorVars, batchVars, bc, project, tc, probe, tmp,
                   tempo>>

\* PreviewThread.run: FFmpeg ends; preview_ready for exit code 0 and an
\* existing file, else preview_failed
ThreadEmit(r) ==
    /\ preview.pc = "run"
    /\ preview.threads[r].state = "running"
    /\ \E ok \in BOOLEAN :
         preview' = [preview EXCEPT
                       !.threads[r].state = "emitted",
                       !.files = IF ok THEN @ \cup {r} ELSE @,
                       !.queue = Append(@, [kind |-> IF ok THEN "ready"
                                                     ELSE "failed",
                                            request_id |-> r])]
    /\ UNCHANGED <<supervisorVars, batchVars, bc, project, tc, probe, tmp,
                   tempo>>

\* PreviewThread.run: isInterruptionRequested() at a timeout of communicate:
\* FFmpeg is killed, the file unlinked, nothing emitted
ThreadInterrupted(r) ==
    /\ preview.pc = "run"
    /\ preview.threads[r].state = "running"
    /\ preview.threads[r].interruption
    /\ preview' = [preview EXCEPT !.threads[r].state = "emitted",
                                  !.files = unlink(@, r)]
    /\ UNCHANGED <<supervisorVars, batchVars, bc, project, tc, probe, tmp,
                   tempo>>

\* run returns: QThread emits finished
ThreadFinished(r) ==
    /\ preview.pc = "run"
    /\ preview.threads[r].state = "emitted"
    /\ preview' = [preview EXCEPT
                     !.threads[r].state = "finished",
                     !.queue = Append(@, [kind |-> "finished",
                                          request_id |-> r])]
    /\ UNCHANGED <<supervisorVars, batchVars, bc, project, tc, probe, tmp,
                   tempo>>

\* _on_preview_ready(preview_file, request_id)
on_preview_ready(request_id) ==
    IF request_id # preview.active_preview_request_id
    THEN [preview EXCEPT !.files = unlink(@, request_id)]
    ELSE IF ~preview.use_ffmpeg_preview
    THEN [preview EXCEPT !.files = unlink(@, request_id)]
    ELSE IF request_id \in preview.files
    THEN [preview EXCEPT !.preview_thread = 0,
                         !.preview_temp_file = request_id,
                         !.active_preview_request_id = request_id,
                         !.current_file = request_id]
    ELSE preview

\* _on_preview_failed(error_msg, request_id)
on_preview_failed(request_id) ==
    IF request_id # preview.active_preview_request_id
    THEN preview
    ELSE [preview EXCEPT !.use_ffmpeg_preview = FALSE,
                         !.preview_thread = 0,
                         !.files = unlink(@, preview.preview_temp_file),
                         !.preview_temp_file = 0,
                         !.active_preview_request_id = 0]

\* _on_preview_thread_finished(request_id)
on_preview_thread_finished(request_id) ==
    IF preview.active_preview_request_id = request_id
    THEN [preview EXCEPT !.preview_thread = 0,
                         !.active_preview_request_id = 0]
    ELSE preview

\* the main thread runs the handler of the oldest queued signal
PreviewDeliver ==
    /\ preview.pc = "run"
    /\ preview.queue # << >>
    /\ LET signal == Head(preview.queue)
           handled ==
             CASE signal.kind = "ready" -> on_preview_ready(signal.request_id)
               [] signal.kind = "failed" ->
                    on_preview_failed(signal.request_id)
               [] signal.kind = "finished" ->
                    on_preview_thread_finished(signal.request_id)
       IN  preview' = [handled EXCEPT !.queue = Tail(preview.queue)]
    /\ UNCHANGED <<supervisorVars, batchVars, bc, project, tc, probe, tmp,
                   tempo>>

NextPreview ==
    \/ set_color_correction
    \/ update_preview_debounced
    \/ \E r \in RequestIds : ThreadEmit(r)
    \/ \E r \in RequestIds : ThreadInterrupted(r)
    \/ \E r \in RequestIds : ThreadFinished(r)
    \/ PreviewDeliver

SpecPreview == InitPreview /\ [][NextPreview]_vars

(***************************************************************************)
(* The atempo loops of _build_speed_filters, one iteration per step, for   *)
(* every speed that a Segment can carry: Segment.from_dict takes the speed *)
(* of the project file as it is.  A loop that has appended MaxStages       *)
(* stages is followed no further.                                          *)
(***************************************************************************)
MaxStages == 12

\* the speeds of the segments: -1.0 to 4.0 in quarters, and 0.01, 5.0, 8.0
\* and 100.0
SegmentSpeeds ==
    {<< k, 4 >> : k \in (0 - 4)..16}
    \cup {<< 1, 100 >>, << 5, 1 >>, << 8, 1 >>, << 100, 1 >>}

InitTempo ==
    /\ InitWorker
    /\ NoBatch
    /\ bc = NoBuild
    /\ budget = [calls |-> 0, stops |-> 0, lines |-> 0, faults |-> 0,
                 kinds |-> "all", mode |-> "tempo"]
    /\ project = [pc |-> "none"]
    /\ tc = [pc |-> "none"]
    /\ probe = [pc |-> "none"]
    /\ tmp = [pc |-> "none"]
    /\ preview = [pc |-> "none"]
    /\ \E speed \in SegmentSpeeds :
         tempo = [pc |-> "start", speed |-> speed, remaining |-> speed,
                  video_filters |-> << >>, audio_filters |-> << >>]

\* the near-one return, setpts, and the choice of the atempo branch
TempoBranch ==
    /\ tempo.pc = "start"
    /\ tempo' =
         IF near_one(tempo.speed) THEN [tempo EXCEPT !.pc = "done"]
         ELSE IF ~Less(tempo.speed, Half) /\ ~Less(Two, tempo.speed)
         THEN [tempo EXCEPT !.pc = "done",
                            !.video_filters = << tempo.speed >>,
                            !.audio_filters = << tempo.speed >>]
         ELSE [tempo EXCEPT
                 !.pc = IF Less(Two, tempo.speed) THEN "fast" ELSE "slow",
                 !.video_filters = << tempo.speed >>]
    /\ UNCHANGED <<supervisorVars, batchVars, bc, project, tc, probe, tmp,
                   preview>>

\* while remaining > 2.0: atempo=2.0, remaining /= 2.0
\* if remaining > 1.0: atempo=remaining
TempoFast ==
    /\ tempo.pc = "fast"
    /\ Len(tempo.audio_filters) < MaxStages
    /\ tempo' =
         IF Less(Two, tempo.remaining)
         THEN [tempo EXCEPT !.audio_filters = Append(@, Two),
                            !.remaining = Over(@, Two)]
         ELSE [tempo EXCEPT
                 !.pc = "done",
                 !.audio_filters = IF Less(One, tempo.remaining)
                                   THEN Append(@, tempo.remaining) ELSE @]
    /\ UNCHANGED <<supervisorVars, batchVars, bc, project, tc, probe, tmp,
                   preview>>

\* while remaining < 0.5: atempo=0.5, remaining /= 0.5
\* if remaining < 1.0: atempo=remaining
TempoSlow ==
    /\ tempo.pc = "slow"
    /\ Len(tempo.audio_filters) < MaxStages
    /\ tempo' =
         IF Less(tempo.remaining, Half)
         THEN [tempo EXCEPT !.audio_filters = Append(@, Half),
                            !.remaining = Over(@, Half)]
         ELSE [tempo EXCEPT
                 !.pc = "done",
                 !.audio_filters = IF Less(tempo.remaining, One)
                                   THEN Append(@, tempo.remaining) ELSE @]
    /\ UNCHANGED <<supervisorVars, batchVars, bc, project, tc, probe, tmp,
                   preview>>

NextTempo ==
    \/ TempoBranch
    \/ TempoFast
    \/ TempoSlow

\* the thread that runs _build_speed_filters keeps running
SpecTempo == InitTempo /\ [][NextTempo]_vars /\ WF_vars(NextTempo)

(***************************************************************************)
(* Helpers of the properties.                                              *)
(***************************************************************************)
Alive == {p \in Procs : proc[p].state = "alive"}

\* the terminal calls thread k made, over all subprocesses
TerminalCalls(k) ==
    {<<p, i>> \in Procs \X (1..(MaxLines + DiagLines + 2)) :
        /\ i <= Len(delivered[p])
        /\ delivered[p][i].idx = 0
        /\ delivered[p][i].by = k}

\* the numbers of the lines of p that readline() has handed out and the
\* loop body has dealt with
Handled(p) == Len(proc[p].out) - Len(proc[p].pipe)
              - Cardinality({k \in Procs : reader[k].pc = "line"
                                           /\ reader[k].stream = p})

\* the increasing sequence of the numbers in 1..n of the lines of p with a
\* time token
RECURSIVE TokenLines(_, _)
TokenLines(p, n) ==
    IF n = 0 THEN <<>>
    ELSE IF proc[p].out[n].time # NoTime
         THEN Append(TokenLines(p, n - 1), n)
         ELSE TokenLines(p, n - 1)

\* the line numbers of the progress calls about p, in the order of the calls
RECURSIVE ProgressCalls(_, _)
ProgressCalls(p, n) ==
    IF n = 0 THEN <<>>
    ELSE IF delivered[p][n].idx # 0
         THEN Append(ProgressCalls(p, n - 1), delivered[p][n].idx)
         ELSE ProgressCalls(p, n - 1)

\* the job is over: no thread of it is left and nothing is queued
JobOver ==
    /\ pt.pc \in {"done", "terminated"}
    /\ mw.pc = "idle"
    /\ mw.queue = <<>>
    /\ \A k \in Procs : reader[k].pc \in {"none", "done"}

(***************************************************************************)
(* C1: execute() that finds is_running True returns False, launches no     *)
(* subprocess, starts no reader thread and leaves is_running, process and  *)
(* progress_callback as they were.                                         *)
(***************************************************************************)
C1_ExecuteWhileRunning ==
    [][(ex.pc = "guard" /\ is_running /\ ex'.pc # "guard")
         => /\ ex'.pc = "idle"
            /\ ex'.ret = "false"
            /\ nproc' = nproc
            /\ proc' = proc
            /\ reader' = reader
            /\ is_running' = is_running
            /\ process' = process
            /\ progress_callback' = progress_callback]_vars

C1_Witness ==
    /\ ex.pc = "idle"
    /\ ex.ret = "false"
    /\ is_running
    /\ process # 0

(***************************************************************************)
(* C2: at most one subprocess launched by one FFmpegWorker is alive at any *)
(* time.                                                                   *)
(***************************************************************************)
C2_AtMostOneAlive == Cardinality(Alive) <= 1

(***************************************************************************)
(* C3: every job gets exactly one terminal callback from _read_output and  *)
(* exactly one finished report, never none and never two.                  *)
(***************************************************************************)
C3_ExactlyOneTerminal ==
    /\ Len(mw.reports) <= 1
    /\ \A k \in Procs : Cardinality(TerminalCalls(k)) <= 1
    /\ JobOver =>
         /\ Len(mw.reports) = 1
         /\ \A k \in Procs :
              reader[k].pc # "none" => Cardinality(TerminalCalls(k)) = 1

(***************************************************************************)
(* C4: once stop() was called on a running job, the job's status is never  *)
(* set to "failed", the callback is never called with the failure value    *)
(* -1.0, and the job ends with the status "cancelled".                     *)
(***************************************************************************)
C4_StoppedIsNotFailed ==
    [][mw.stopped
         => /\ job'.status = "failed" => job.status = "failed"
            /\ \A p \in Procs :
                 delivered'[p] # delivered[p]
                   => delivered'[p][Len(delivered'[p])].val # ErrorValue
            /\ JobOver => job.status = "cancelled"]_vars

(***************************************************************************)
(* C5: the terminal callback about a subprocess carries 100.0 exactly when *)
(* its exit code is 0 and -1.0 otherwise, and no value parsed from an      *)
(* output line is -1.0.                                                    *)
(***************************************************************************)
ParsedLines ==
    {TimeLine(h, m, s, c, FALSE) : h \in {0, 99}, m \in {0, 99},
                                    s \in {0, 59, 99}, c \in {0, 99}}

C5_TerminalValue ==
    /\ \A p \in Procs : \A i \in 1..Len(delivered[p]) :
         LET call == delivered[p][i] IN
           IF call.idx = 0
           THEN /\ proc[p].state = "exited"
                /\ call.rc = proc[p].rc
                /\ call.val = DoneValue <=> proc[p].rc = 0
                /\ call.val # DoneValue => call.val = ErrorValue
           ELSE call.val # ErrorValue
    /\ \A line \in ParsedLines : parse_progress(line)[1] # ErrorValue

C5_Witness ==
    \E p \in Procs : \E i \in 1..Len(delivered[p]) :
        /\ delivered[p][i].idx = 0
        /\ delivered[p][i].val = ErrorValue
        /\ proc[p].rc = 1
        /\ \E j \in 1..Len(delivered[p]) : delivered[p][j].val = DoneValue

(***************************************************************************)
(* C6: when stop() returns, is_running is False and terminate() was called *)
(* on the subprocess that was running, whether it exited within the grace  *)
(* period or was killed.                                                   *)
(***************************************************************************)
C6_StopClearsAndTerminates ==
    [][(st.pc # "idle" /\ st'.pc = "idle")
         => /\ ~is_running'
            /\ st'.target # 0 => proc'[st'.target].term]_vars

C6_Witness ==
    /\ st.pc = "idle"
    /\ st.target # 0
    /\ proc[st.target].term
    /\ proc[st.target].rc = RcKill
    /\ ~is_running

(***************************************************************************)
(* C7: when the engine cannot be spawned, execute() returns False with     *)
(* is_running False and no reader thread, the job's status never is        *)
(* "running" and no callback is made for it.                               *)
(***************************************************************************)
C7_SpawnFailure ==
    (AppMode /\ ex.pc = "idle" /\ ex.ret = "false")
      => /\ ~is_running
         /\ \A k \in Procs : reader[k].pc = "none"
         /\ \A p \in Procs : delivered[p] = <<>>
         /\ job.status # "running"

(***************************************************************************)
(* C8: no subprocess is launched for a missing source file or for a range  *)
(* with end <= start.                                                      *)
(***************************************************************************)
C8_NoLaunchForInvalid ==
    (ex.pc # "idle" /\ ex.launched # 0) => validate(ex.inp)

(***************************************************************************)
(* C9: the progress callbacks about a job come in the order of the lines   *)
(* they were parsed from, one for each line with a time token and none for *)
(* a line without, and the terminal callback comes after all of them.      *)
(***************************************************************************)
C9_CallbackOrder ==
    \A p \in Procs :
      /\ ProgressCalls(p, Len(delivered[p]))
           = TokenLines(p, IF proc[p].state = "none" THEN 0 ELSE Handled(p))
      /\ \A i \in 1..Len(delivered[p]) :
           delivered[p][i].idx = 0 => i = Len(delivered[p])

C9_Witness ==
    \E p \in Procs :
      /\ Len(delivered[p]) = 2
      /\ delivered[p][1].idx = 2
      /\ delivered[p][2].idx = 0
      /\ proc[p].out[1].time = NoTime

(***************************************************************************)
(* C10: the number of diagnostic lines a reader keeps never exceeds a      *)
(* fixed bound (the five the failure branch reports), and a diagnostic     *)
(* line does not end the job before the subprocess exits.                  *)
(***************************************************************************)
C10_BoundedDiagnostics ==
    \A k \in Procs :
      /\ Len(reader[k].error_lines) <= ErrorTail
      /\ reader[k].pc \in {"wait", "waiting", "report"}
           => proc[reader[k].stream].state = "exited"

(***************************************************************************)
(* C11: every percentage that ProcessingThread._on_progress emits for a    *)
(* callback value of the worker lies in [0,100], the sentinel values       *)
(* 100.0 and -1.0 and times outside the range of the job included.         *)
(***************************************************************************)
C11_PercentInRange ==
    \A p \in Procs : \A i \in 1..Len(delivered[p]) :
        LET emitted == on_progress(delivered[p][i].val, job.inp)
        IN  emitted # << >> =>
              /\ emitted[1] >= 0
              /\ emitted[1] <= 100 * emitted[2]

(***************************************************************************)
(* Helpers of the properties of the split export.                          *)
(***************************************************************************)
Enabled == {i \in SegmentIds : segments[i].enabled}

Returned == {sw.output_files[k] : k \in 1..Len(sw.output_files)}

\* the export ran to its return and stop() never set the flag during it
ExportedUncancelled ==
    /\ sw.pc = "returned"
    /\ sw.input_exists
    /\ ~sw.cancelled

C13_ReportsAndNoException ==
    /\ \A k \in 1..Len(sw.reports) :
          /\ sw.reports[k] = <<k, sw.total>>
          /\ k <= sw.total
    /\ Len(sw.output_files) <= sw.total
    /\ sw.pc # "raised"

(***************************************************************************)
(* C14: the number of segment subprocesses running at the same time never  *)
(* exceeds max_workers.                                                    *)
(***************************************************************************)
C14_PoolBound ==
    Cardinality({i \in SegmentIds : fut[i].state = "communicate"})
       <= sw.max_workers

C14_Witness ==
    /\ Cardinality({i \in SegmentIds : fut[i].state = "communicate"})
          = sw.max_workers
    /\ \E i \in SegmentIds : fut[i].state = "pending"

(***************************************************************************)
(* C15: in a split export that is not cancelled, a failing segment job     *)
(* stops no other enabled segment's job from being run, and every job that *)
(* succeeds is in the returned list.                                       *)
(***************************************************************************)
C15_SiblingsUnaffected ==
    ExportedUncancelled =>
        \A i \in Enabled :
            /\ fut[i].state = "finished"
            /\ segments[i].fate # "raise" => fut[i].launched
            /\ segments[i].fate = "ok" => i \in Returned

C15_Witness ==
    /\ ExportedUncancelled
    /\ \E i, j, k \in Enabled :
          /\ i < j /\ j < k
          /\ segments[i].fate = "fail"
          /\ segments[j].fate = "raise"
          /\ segments[k].fate = "ok"
          /\ k \in Returned

(***************************************************************************)
(* C16: once stop() has set the flag during a split export, no job that    *)
(* had not started launches a subprocess and each job whose subprocess was *)
(* running finishes by its own exit before the call returns.  As stated,   *)
(* every future that had not started is cancelled; as the code goes, such  *)
(* a future is cancelled or is run by the pool and returns None at once.   *)
(***************************************************************************)
C16_StopSkipsUnstarted ==
    (sw.pc = "returned" /\ sw.stopped) =>
        /\ \A i \in sw.unstarted :
              /\ ~fut[i].launched
              /\ \/ fut[i].state = "cancelled"
                 \/ fut[i].state = "finished" /\ ~fut[i].result
        /\ \A i \in sw.inflight :
              /\ fut[i].state = "finished"
              /\ fut[i].result = (segments[i].fate = "ok")

C16_UnstartedAreCancelled ==
    (sw.pc = "returned" /\ sw.stopped) =>
        /\ \A i \in sw.unstarted :
              /\ ~fut[i].launched
              /\ fut[i].state = "cancelled"
        /\ \A i \in sw.inflight :
              /\ fut[i].state = "finished"
              /\ fut[i].result = (segments[i].fate = "ok")

C16_Witness ==
    /\ sw.pc = "returned"
    /\ sw.stopped
    /\ \E i, j \in sw.unstarted : i # j /\ fut[i].state = "cancelled"
                                       /\ fut[j].state = "cancelled"
    /\ \E i \in sw.inflight : fut[i].result

C18_TempDirRemoved ==
    (cc.pc \in {"returned", "raised"} /\ cc.rmtree_ok) => ~cc.temp_dir

(***************************************************************************)
(* Helpers of the properties of the filters.                               *)
(***************************************************************************)
RECURSIVE Product(_)
Product(stages) ==
    IF stages = << >> THEN << 1, 1 >>
    ELSE << Head(stages)[1] * Product(Tail(stages))[1],
            Head(stages)[2] * Product(Tail(stages))[2] >>

EqNames ==
    IF \E k \in 1..Len(bc.color_filters) : bc.color_filters[k].name = "eq"
    THEN LET eq == CHOOSE f \in {bc.color_filters[k] :
                                   k \in 1..Len(bc.color_filters)} :
                      f.name = "eq"
         IN  {eq.params[k].name : k \in 1..Len(eq.params)}
    ELSE {}

FilterNames == {bc.color_filters[k].name : k \in 1..Len(bc.color_filters)}

(***************************************************************************)
(* C19: for each of the speeds 0.5, 1.0, 1.0001, 2.0, 3.0, 0.3 and 5.0 the *)
(* atempo stages of _build_speed_filters have a product within 1e-6 of the *)
(* speed (an empty list counts as 1) and each stage lies in [0.5, 2.0].    *)
(***************************************************************************)
C19_AtempoProduct ==
    bc.pc \in {"speed", "color"} =>
        LET prod == Product(bc.audio_filters)
        IN  /\ Abs(prod[1] * bc.speed[2] - bc.speed[1] * prod[2]) * 1000000
                  <= prod[2] * bc.speed[2]
            /\ \A k \in 1..Len(bc.audio_filters) :
                  /\ bc.audio_filters[k][1] * 2 >= bc.audio_filters[k][2]
                  /\ bc.audio_filters[k][1] <= 2 * bc.audio_filters[k][2]

(***************************************************************************)
(* C20: a color parameter exactly at its neutral value never appears in    *)
(* the filters of _build_color_filters, and an all-neutral grade gives no  *)
(* filter.  As stated, the eq expression holds exactly the non-neutral     *)
(* ones of brightness, contrast, saturation and gamma; as the code goes,   *)
(* it holds exactly those that differ from neutral by at least 0.01.       *)
(***************************************************************************)
C20_NeutralOmitted ==
    bc.pc = "color" =>
        LET g == bc.grade
        IN  /\ g.brightness = 0 => "brightness" \notin EqNames
            /\ g.contrast = 1000 => "contrast" \notin EqNames
            /\ g.saturation = 1000 => "saturation" \notin EqNames
            /\ g.shadows = 0 => "gamma" \notin EqNames
            /\ g.sharpness = 0 =>
                  "unsharp" \notin FilterNames /\ "boxblur" \notin FilterNames
            /\ (g.temperature = 0 /\ g.tint = 0) =>
                  "colorchannelmixer" \notin FilterNames
            /\ ("eq" \in FilterNames) = (EqNames # {})
            /\ EqNames =
                  {n \in {"brightness"} : Abs(g.brightness) >= 10}
                  \cup {n \in {"contrast"} : Abs(g.contrast - 1000) >= 10}
                  \cup {n \in {"saturation"} : Abs(g.saturation - 1000) >= 10}
                  \cup {n \in {"gamma"} : Abs(g.shadows) >= 10}

C20_ExactlyNonNeutral ==
    bc.pc = "color" =>
        LET g == bc.grade
        IN  EqNames =
              {n \in {"brightness"} : g.brightness # 0}
              \cup {n \in {"contrast"} : g.contrast # 1000}
              \cup {n \in {"saturation"} : g.saturation # 1000}
              \cup {n \in {"gamma"} : g.shadows # 0}

C20_Witness ==
    /\ bc.pc = "color"
    /\ bc.grade.brightness = 0
    /\ bc.grade.contrast = 1500
    /\ bc.grade.saturation = 1000
    /\ bc.grade.shadows = 400
    /\ bc.grade.sharpness = 0
    /\ bc.grade.temperature = 0
    /\ bc.grade.tint = 0
    /\ EqNames = {"contrast", "gamma"}
    /\ Len(bc.color_filters) = 1

(***************************************************************************)
(* C21: for a source of positive size and a target of 16:9 or 9:16, no     *)
(* crop is emitted when the source aspect is within 0.01 of the target;    *)
(* otherwise exactly one crop is emitted, which keeps one source dimension,*)
(* has the other equal to the integer part of the kept one scaled by the   *)
(* target ratio, is centered on the cropped axis with an integer offset    *)
(* (sourceDim - newDim) div 2 and offset 0 on the other axis, and lies     *)
(* inside the source frame.  The same holds for what build_command adds.   *)
(***************************************************************************)
CropAsClaimed(crops, tn, td, width, height) ==
    IF Abs(width * td - tn * height) * 100 < height * td
    THEN crops = << >>
    ELSE /\ Len(crops) = 1
         /\ crops[1].name = "crop"
         /\ IF width * td > tn * height
            THEN /\ crops[1].h = height
                 /\ crops[1].w * td <= height * tn
                 /\ height * tn < (crops[1].w + 1) * td
                 /\ crops[1].x * 2 <= width - crops[1].w
                 /\ width - crops[1].w < crops[1].x * 2 + 2
                 /\ crops[1].y = 0
            ELSE /\ crops[1].w = width
                 /\ crops[1].h * tn <= width * td
                 /\ width * td < (crops[1].h + 1) * tn
                 /\ crops[1].y * 2 <= height - crops[1].h
                 /\ height - crops[1].h < crops[1].y * 2 + 2
                 /\ crops[1].x = 0
         /\ crops[1].x >= 0
         /\ crops[1].y >= 0
         /\ crops[1].x + crops[1].w <= width
         /\ crops[1].y + crops[1].h <= height

C21_CenteredCrop ==
    /\ (bc.pc \in {"aspect", "command"} /\ bc.aspect_ratio = "16:9") =>
          CropAsClaimed(bc.aspect_filters, 16, 9, bc.input_width,
                        bc.input_height)
    /\ (bc.pc \in {"aspect", "command"} /\ bc.aspect_ratio = "9:16") =>
          CropAsClaimed(bc.aspect_filters, 9, 16, bc.input_width,
                        bc.input_height)
    /\ (bc.pc = "command" /\ bc.aspect_ratio = "16:9") =>
          CropAsClaimed(bc.command_filters, 16, 9, bc.input_width,
                        bc.input_height)
    /\ (bc.pc = "command" /\ bc.aspect_ratio = "9:16") =>
          CropAsClaimed(bc.command_filters, 9, 16, bc.input_width,
                        bc.input_height)

C21_Witness ==
    /\ bc.pc = "command"
    /\ bc.aspect_ratio = "9:16"
    /\ bc.input_width = 1920
    /\ bc.input_height = 1080
    /\ bc.aspect_filters = << [name |-> "crop", w |-> 607, h |-> 1080,
                               x |-> 656, y |-> 0] >>
    /\ bc.command_filters = bc.aspect_filters

\* the positions of a flag in the command, and the chain that follows it
FlagAt(text) ==
    {k \in 1..Len(bc.cmd) : bc.cmd[k].kind = "flag" /\ bc.cmd[k].text = text}

ChainOf(text) ==
    IF FlagAt(text) = {} THEN << >>
    ELSE bc.cmd[(CHOOSE k \in FlagAt(text) : TRUE) + 1].filters

Rank(name) ==
    CASE name = "trim" -> 1
      [] name = "setpts=PTS-STARTPTS" -> 2
      [] name = "setpts=PTS/speed" -> 3
      [] name = "eq" -> 4
      [] name \in {"unsharp", "boxblur"} -> 5
      [] name = "colorchannelmixer" -> 6
      [] name = "crop" -> 7
      [] name = "custom" -> 8
      [] OTHER -> 0

TrailingOptions ==
    {"-c:v", "-preset", "-crf", "-c:a", "-b:a", "-pix_fmt", "-movflags"}

(***************************************************************************)
(* C22: in a built command the video chain is ordered trim at zero with    *)
(* the timestamp reset, the setpts speed filter, the color filters (eq,    *)
(* unsharp or boxblur, colorchannelmixer), the crop, the caller's filters; *)
(* the encoding options, -pix_fmt and -movflags come after -vf and -af and *)
(* are in no filter chain; the output path is the last argument.           *)
(***************************************************************************)
C22_ChainOrder ==
    bc.pc = "done" =>
      /\ \A i, j \in 1..Len(ChainOf("-vf")) :
           i < j =>
             \/ Rank(ChainOf("-vf")[i].name) < Rank(ChainOf("-vf")[j].name)
             \/ /\ ChainOf("-vf")[i].name = "custom"
                /\ ChainOf("-vf")[j].name = "custom"
      /\ \A k \in 1..Len(ChainOf("-vf")) : Rank(ChainOf("-vf")[k].name) > 0
      /\ FlagAt("-pix_fmt") # {}
      /\ FlagAt("-movflags") # {}
      /\ (bc.encoding_profile # "none") =>
            \A text \in TrailingOptions : FlagAt(text) # {}
      /\ \A text \in TrailingOptions : \A k \in FlagAt(text) :
           \A f \in FlagAt("-vf") \cup FlagAt("-af") : f + 1 < k
      /\ \A k \in 1..Len(bc.cmd) :
           bc.cmd[k].kind = "chain" =>
             \A n \in 1..Len(bc.cmd[k].filters) :
               bc.cmd[k].filters[n].name \notin TrailingOptions
      /\ bc.cmd[Len(bc.cmd)] = [kind |-> "word", text |-> "output_file"]

C22_Witness ==
    /\ bc.pc = "done"
    /\ bc.encoding_profile = "balanced"
    /\ Len(ChainOf("-vf")) = 8
    /\ [k \in 1..8 |-> ChainOf("-vf")[k].name] =
         << "trim", "setpts=PTS-STARTPTS", "setpts=PTS/speed", "eq",
            "unsharp", "colorchannelmixer", "crop", "custom" >>
    /\ FlagAt("-af") # {}

TimeCap == bc.cmd[(CHOOSE k \in FlagAt("-t") : TRUE) + 1].value

SpeedFilterNames ==
    {"trim", "setpts=PTS-STARTPTS", "setpts=PTS/speed", "atrim",
     "asetpts=PTS-STARTPTS", "atempo"}

ChainNames(text) ==
    {ChainOf(text)[k].name : k \in 1..Len(ChainOf(text))}

NoCropNeeded ==
    \/ bc.aspect_ratio = ""
    \/ bc.aspect_ratio = "16:9" /\ bc.input_width * 9 = bc.input_height * 16
    \/ bc.aspect_ratio = "9:16" /\ bc.input_width * 16 = bc.input_height * 9

(***************************************************************************)
(* C23: with a speed within 0.01 of 1.0 the command has -t = end - start,  *)
(* no trim, setpts, atrim or atempo filter and no -af (and no -vf when the *)
(* color is neutral, no crop is needed and the caller gave no filter);     *)
(* with any other speed it has -t = end - start + 0.5, a video chain that  *)
(* starts with trim=start=0:duration=(end - start), setpts=PTS-STARTPTS    *)
(* and setpts=PTS/speed, and an audio chain that starts with the atrim and *)
(* asetpts reset followed by the atempo stages, exactly one atempo=2.0 for *)
(* the speed 2.0.                                                          *)
(***************************************************************************)
C23_SpeedConsistency ==
    bc.pc = "done" =>
      /\ Cardinality(FlagAt("-t")) = 1
      /\ IF Abs(bc.speed[1] - bc.speed[2]) * 100 < bc.speed[2]
         THEN /\ TimeCap = bc.end_time - bc.start_time
              /\ ChainNames("-vf") \cap SpeedFilterNames = {}
              /\ FlagAt("-af") = {}
              /\ (bc.grade = NeutralGrade /\ NoCropNeeded
                  /\ bc.filters = << >>) => FlagAt("-vf") = {}
         ELSE /\ TimeCap = bc.end_time - bc.start_time + 50
              /\ Len(ChainOf("-vf")) >= 3
              /\ ChainOf("-vf")[1] =
                   [name |-> "trim", start |-> 0,
                    duration |-> bc.end_time - bc.start_time]
              /\ ChainOf("-vf")[2] = [name |-> "setpts=PTS-STARTPTS"]
              /\ ChainOf("-vf")[3] =
                   [name |-> "setpts=PTS/speed", speed |-> bc.speed]
              /\ Len(ChainOf("-af")) >= 3
              /\ ChainOf("-af")[1] =
                   [name |-> "atrim", start |-> 0,
                    duration |-> bc.end_time - bc.start_time]
              /\ ChainOf("-af")[2] = [name |-> "asetpts=PTS-STARTPTS"]
              /\ \A k \in 3..Len(ChainOf("-af")) :
                   ChainOf("-af")[k].name = "atempo"
              /\ (bc.speed = << 2, 1 >>) =>
                    /\ Len(ChainOf("-af")) = 3
                    /\ ChainOf("-af")[3].tempo = << 2, 1 >>

\* scenario A: 10.0 to 20.0 at speed 1.0, nothing else asked
C23_Witness ==
    /\ bc.pc = "done"
    /\ bc.speed = << 1, 1 >>
    /\ bc.start_time = 1000
    /\ bc.end_time = 2000
    /\ bc.grade = NeutralGrade
    /\ bc.aspect_ratio = ""
    /\ bc.filters = << >>
    /\ TimeCap = 1000
    /\ FlagAt("-vf") = {}
    /\ FlagAt("-af") = {}

SegmentFields ==
    {"start_time", "end_time", "name", "enabled", "encoding_profile",
     "speed", "aspect_ratio", "brightness", "contrast", "saturation",
     "sharpness", "shadows", "temperature", "tint"}

(***************************************************************************)
(* C24: a Project saved with save_to_file and loaded back with             *)
(* load_from_file has the same input file, output directory, export mode,  *)
(* export method and project name, and as many segments in the same order  *)
(* whose fourteen fields equal the originals.                              *)
(***************************************************************************)
C24_RoundTrip ==
    (project.pc = "loaded" /\ project.saved) =>
      /\ project.loaded.exists
      /\ project.loaded.self.input_file = project.self.input_file
      /\ project.loaded.self.output_dir = project.self.output_dir
      /\ project.loaded.self.export_mode = project.self.export_mode
      /\ project.loaded.self.export_method = project.self.export_method
      /\ project.loaded.self.project_name = project.self.project_name
      /\ Len(project.loaded.self.segments) = Len(project.self.segments)
      /\ \A k \in 1..Len(project.self.segments) :
           /\ DOMAIN project.loaded.self.segments[k] = SegmentFields
           /\ \A field \in SegmentFields :
                project.loaded.self.segments[k][field] =
                  project.self.segments[k][field]

C24_Witness ==
    /\ project.pc = "loaded"
    /\ project.saved
    /\ project.loaded.exists
    /\ Len(project.loaded.self.segments) = 2
    /\ project.loaded.self.segments[1].speed = [type |-> "float",
                                                value |-> 2000]
    /\ project.loaded.self.segments[2].enabled = [type |-> "bool",
                                                  value |-> FALSE]
    /\ project.self.export_mode.value = "concat"

(***************************************************************************)
(* C25: for every non-negative time of whole milliseconds,                 *)
(* timecode_to_seconds(seconds_to_timecode(t)) = t, with and without the   *)
(* hours; the minutes and seconds fields are below 60 and the millisecond  *)
(* field below 1000; a negative time is formatted as zero.                 *)
(***************************************************************************)
C25_TimecodeRoundTrip ==
    /\ tc.pc \in {"formatted", "parsed"} =>
         /\ tc.timecode.parts[Len(tc.timecode.parts)] \in 0..59
         /\ tc.timecode.parts[Len(tc.timecode.parts) - 1] \in 0..59
         /\ tc.timecode.milliseconds \in 0..999
         /\ tc.seconds < 0 =>
              /\ \A k \in 1..Len(tc.timecode.parts) : tc.timecode.parts[k] = 0
              /\ tc.timecode.milliseconds = 0
    /\ (tc.pc = "parsed" /\ tc.seconds >= 0) => tc.parsed = tc.seconds

\* the fields are in range and a negative time is zero: what remains of
\* C25 without the round trip
C25_FieldsInRange ==
    tc.pc \in {"formatted", "parsed"} =>
      /\ tc.timecode.parts[Len(tc.timecode.parts)] \in 0..59
      /\ tc.timecode.parts[Len(tc.timecode.parts) - 1] \in 0..59
      /\ tc.timecode.milliseconds \in 0..999
      /\ tc.seconds < 0 =>
           /\ \A k \in 1..Len(tc.timecode.parts) : tc.timecode.parts[k] = 0
           /\ tc.timecode.milliseconds = 0

\* 1.001 s is formatted as 00:00:01.000 and parsed as 1.0
C25_LostMillisecond ==
    /\ tc.pc = "parsed"
    /\ tc.seconds = 1001
    /\ tc.timecode = [parts |-> << 0, 0, 1 >>, milliseconds |-> 0]
    /\ tc.parsed = 1000

ProbedAsClaimed ==
    (probe.pc = "returned" /\ probe.fault # "none") =>
      CASE probe.caller = "get_video_info" -> probe.result = [none |-> TRUE]
        [] probe.caller = "get_video_duration" -> probe.result = 0
        [] probe.caller = "get_video_fps" -> probe.result = 0
        [] probe.caller = "export_segments_accurate" ->
             probe.result = << 1920, 1080 >>

(***************************************************************************)
(* C26: probing never fails with an exception: for a missing source, a     *)
(* missing probe executable, a nonzero probe exit, unparsable output or no *)
(* video stream, get_video_info returns None, get_video_duration and       *)
(* get_video_fps return 0.0, and the export uses 1920x1080.                *)
(***************************************************************************)
C26_ProbeNeverRaises ==
    /\ probe.pc # "raised"
    /\ ProbedAsClaimed

\* the missing probe executable raises out of every caller
C26_ProbeMissingRaises ==
    /\ probe.pc = "raised"
    /\ probe.fault = "probe_missing"
    /\ probe.caller = "get_video_duration"

\* the jobs whose subprocess exited with 0 and left its output file
Succeeded ==
    {i \in SegmentIds : fut[i].state = "finished" /\ fut[i].result}

(***************************************************************************)
(* C27: in a split export every segment job whose subprocess exits with 0  *)
(* and whose output file exists is in the list that the call returns, also *)
(* when stop() is called while the job is in flight or after it finished   *)
(* and before its result was collected.                                    *)
(***************************************************************************)
C27_FinishedJobsAccounted ==
    (sw.pc = "returned" /\ sw.input_exists) => Succeeded \subseteq Returned

\* stop() during the flight of a job that then succeeds: the file is left
\* out of the returned list
C27_DroppedResult ==
    /\ sw.pc = "returned"
    /\ sw.stopped
    /\ \E i \in sw.inflight : i \in Succeeded /\ i \notin Returned

\* without a stop() during the export every succeeded job is returned
C27_AccountedUnlessStopped ==
    (sw.pc = "returned" /\ sw.input_exists /\ ~sw.stopped) =>
      Succeeded \subseteq Returned

\* the calls that have made their directory and not yet removed it
UsingTemp == {c \in ConcatCalls : tmp.call[c].pc \in {"loop", "join", "finally"}}

(***************************************************************************)
(* C28: two concat export calls never use the same temporary directory,    *)
(* also when they start within the same second: no call writes into the    *)
(* directory another call is using, and no cleanup removes files that      *)
(* another running call needs.                                             *)
(***************************************************************************)
C28_DisjointTempDirs ==
    /\ \A c, o \in UsingTemp :
         c # o => tmp.call[c].temp_dir # tmp.call[o].temp_dir
    /\ \A c \in ConcatCalls :
         tmp.call[c].pc \in {"loop", "join"} =>
           /\ tmp.dirs[tmp.call[c].temp_dir].exists
           /\ \A k \in 1..tmp.call[c].written :
                tmp.dirs[tmp.call[c].temp_dir].files[k] = c

\* two calls of the same second share the directory, and the cleanup of
\* one removes the segment files of the other before it joins them
C28_CleanupUnderRunning ==
    \E c, o \in ConcatCalls :
      /\ c # o
      /\ tmp.call[c].pc = "done"
      /\ tmp.call[o].pc = "loop"
      /\ tmp.call[o].written > 0
      /\ tmp.call[o].temp_dir = tmp.call[c].temp_dir
      /\ ~tmp.dirs[tmp.call[o].temp_dir].exists

\* a call whose directory no other call has taken finds it and its own
\* files in it
C28_DisjointInDifferentSeconds ==
    \A c \in ConcatCalls :
      (/\ tmp.call[c].pc \in {"loop", "join"}
       /\ \A o \in ConcatCalls \ {c} :
            tmp.call[o].pc = "idle"
            \/ tmp.call[o].temp_dir # tmp.call[c].temp_dir) =>
        /\ tmp.dirs[tmp.call[c].temp_dir].exists
        /\ \A k \in 1..tmp.call[c].written :
             tmp.dirs[tmp.call[c].temp_dir].files[k] = c

\* the step is the handling of the oldest queued signal
Delivering ==
    /\ preview.queue # << >>
    /\ Len(preview'.queue) = Len(preview.queue) - 1

\* request ids are strictly increasing
IdsIncrease ==
    /\ preview'.preview_generation_counter >= preview.preview_generation_counter
    /\ preview'.active_preview_request_id \notin
         {0, preview.active_preview_request_id} =>
         /\ preview'.active_preview_request_id =
              preview.preview_generation_counter + 1
         /\ preview'.preview_generation_counter =
              preview.preview_generation_counter + 1

\* a result of another request than the active one changes nothing but the
\* file of a stale ready result, which is deleted
StaleDiscarded ==
    (/\ Delivering
     /\ preview.queue[1].kind \in {"ready", "failed"}
     /\ preview.queue[1].request_id # preview.active_preview_request_id) =>
      /\ preview'.current_file = preview.current_file
      /\ preview'.use_ffmpeg_preview = preview.use_ffmpeg_preview
      /\ preview'.active_preview_request_id = preview.active_preview_request_id
      /\ preview'.preview_temp_file = preview.preview_temp_file
      /\ preview'.files =
           IF preview.queue[1].kind = "ready"
           THEN preview.files \ {preview.queue[1].request_id}
           ELSE preview.files

\* the result of a request that no newer request and no color change has
\* superseded is applied
LatestApplied ==
    (/\ Delivering
     /\ preview.queue[1].kind \in {"ready", "failed"}
     /\ preview.queue[1].request_id \notin preview.superseded) =>
      IF preview.queue[1].kind = "ready"
      THEN preview'.current_file = preview.queue[1].request_id
      ELSE /\ ~preview'.use_ffmpeg_preview
           /\ preview'.active_preview_request_id = 0

(***************************************************************************)
(* C29: in the preview regeneration the request ids are strictly           *)
(* increasing; a ready or failed result whose request id is not the active *)
(* one never replaces the playing file and never changes                   *)
(* use_ffmpeg_preview or the active id (a stale ready file is only         *)
(* deleted); and the result of the latest request is applied when no newer *)
(* request or color change has superseded it.                              *)
(***************************************************************************)
C29_PreviewProtocol ==
    [][IdsIncrease /\ StaleDiscarded /\ LatestApplied]_vars

\* the first two parts of C29, and the third for the results that arrive
\* while the FFmpeg preview is switched on
C29_StaleResultsDiscarded ==
    [][/\ IdsIncrease
       /\ StaleDiscarded
       /\ preview.use_ffmpeg_preview => LatestApplied]_vars

\* the latest request has produced its file, nothing superseded it, and the
\* handler has deleted the file: FFmpeg preview was switched off by the
\* failure of the request before
C29_LatestDiscarded ==
    /\ preview.preview_generation_counter = 2
    /\ preview.superseded = {1}
    /\ preview.threads[2].state \in {"emitted", "finished"}
    /\ preview.active_preview_request_id = 2
    /\ ~preview.use_ffmpeg_preview
    /\ preview.current_file = 0
    /\ 2 \notin preview.files
    /\ \A k \in 1..Len(preview.queue) : preview.queue[k].request_id # 2
         \/ preview.queue[k].kind = "finished"

\* 0.25 <= speed <= 4.0
Supported(speed) == speed[1] * 4 >= speed[2] /\ speed[1] <= 4 * speed[2]

C30_EndlessLoop ==
    /\ tempo.pc = "slow"
    /\ tempo.speed = << 0, 4 >>
    /\ tempo.remaining[1] = 0
    /\ Len(tempo.audio_filters) = MaxStages

\* for a positive speed the loops end, with the stages of
\* build_speed_filters, at most 6 of them in the supported range
C30_PositiveTerminates ==
    /\ (tempo.speed[1] > 0) => <>(tempo.pc = "done")
    /\ []((tempo.speed[1] > 0 /\ tempo.pc = "done") =>
            tempo.audio_filters = build_speed_filters(tempo.speed).audio)
    /\ [](Supported(tempo.speed) => Len(tempo.audio_filters) <= 6)

====
